---- MODULE Spec2Model ----
(***************************************************************************)
(* IceNet2DataLoader (src/icenet2/utils.py): the sample index, the batch   *)
(* assembler and the epoch iterator, as a state machine; and the           *)
(* normalisation of IceNet2DataPreProcessor; the two training callbacks    *)
(* (src/icenet2/model/callbacks.py) and the CMIP6 downloader               *)
(* (src/icenet2/data/interfaces/esgf.py).                                  *)
(*                                                                         *)
(* Spec explores the loader as a whole.  SpecBuild, SpecAssemble,          *)
(* SpecMissing, SpecNorm, SpecSave, SpecPaths, SpecSetup, SpecShape and    *)
(* SpecReset explore one part each over a wider range of configurations    *)
(* and inputs; SpecCallbacks and SpecDownload explore the callbacks and    *)
(* the downloader.                                                         *)
(*                                                                         *)
(* Calendar dates are day numbers (integers); a datetime's .month and .day *)
(* are Month(d) and Day(d).  A 2-D grid is the set of its cells; a boolean *)
(* mask is the set of cells where it is True.                              *)
(***************************************************************************)
EXTENDS Integers, Sequences, FiniteSets, TLC

\* ------------------------------------------------------------------ bounds
MaxLag == 2           \* largest max_lag of a SIC representation
MaxBatch == 2         \* largest batch_size
MaxCalls == 2         \* index-changing calls explored after construction
NumCells == 3         \* cells of the grid (raw_data_shape flattened)
DaysPerMonth == 4     \* days of a calendar month of the model's calendar
MaxCsvDay == 3        \* last day a row of a missing-days file may name
MaxSubDay == 1        \* largest hour, minute and second of such a timestamp
MaxTime == 3          \* time steps of an array given to the normalisation
MaxValue == 1         \* largest value of such an array

Cells == 1..NumCells
Hemispheres == {"nh", "sh"}

\* Python's None / a present value
None == <<>>
Some(v) == <<v>>
Val(x) == x[1]

Month(d) == ((d \div DaysPerMonth) % 12) + 1
Day(d) == (d % DaysPerMonth) + 1

\* the sum of the numbers seq[k..]
RECURSIVE SeqSum(_, _)
SeqSum(seq, k) == IF k > Len(seq) THEN 0 ELSE seq[k] + SeqSum(seq, k + 1)

SetMax(S) == CHOOSE m \in S : \A x \in S : x <= m
SetMin(S) == CHOOSE m \in S : \A x \in S : m <= x

\* ------------------------------------------------- configuration (the JSON)
\* config['input_data']: insertion-ordered; every siconca representation has
\* an include flag, the lagged ones a max_lag.
Representation(fmt, inc, lag) == [data_format |-> fmt, include |-> inc, max_lag |-> lag]

InputData(absInc, absLag, anomInc, anomLag, trendInc) ==
    << [varname |-> "siconca", metadata |-> FALSE, include |-> TRUE,
        formats |-> << Representation("abs", absInc, absLag),
                       Representation("anom", anomInc, anomLag),
                       Representation("linear_trend", trendInc, 0) >>],
       [varname |-> "land", metadata |-> TRUE, include |-> TRUE, formats |-> <<>>],
       [varname |-> "circday", metadata |-> TRUE, include |-> TRUE, formats |-> <<>>] >>

\* a representation that is not included keeps max_lag 1 in the file
LagChoices == {<<TRUE, l>> : l \in 1..MaxLag} \cup {<<FALSE, 1>>}

InputDataChoices ==
    { InputData(a[1], a[2], n[1], n[2], t) :
        a \in LagChoices, n \in LagChoices, t \in BOOLEAN }

\* config['sample_IDs']: per hemisphere, (start, end) of each split or null
sample_IDs ==
    << [hemisphere |-> "nh", train |-> Some(<<4, 7>>), val |-> Some(<<8, 9>>),
        test |-> Some(<<10, 10>>)],
       [hemisphere |-> "sh", train |-> Some(<<5, 6>>), val |-> None,
        test |-> Some(<<10, 11>>)] >>

Configs ==
    { [input_data |-> i, n_forecast_days |-> 2, batch_size |-> b,
       loss_weight_months |-> w, default_seed |-> 1,
       train_sample_thin_factor |-> None, val_sample_thin_factor |-> Some(2),
       sample_IDs |-> sample_IDs] :
        i \in InputDataChoices, b \in 1..MaxBatch, w \in BOOLEAN }

\* one configuration: SIC abs with the deepest lag, nothing else time-varying
FixedConfig ==
    [input_data |-> InputData(TRUE, MaxLag, FALSE, 1, FALSE), n_forecast_days |-> 2,
     batch_size |-> 1, loss_weight_months |-> FALSE, default_seed |-> 1,
     train_sample_thin_factor |-> None, val_sample_thin_factor |-> Some(2),
     sample_IDs |-> sample_IDs]

\* the seed argument of the constructor
SeedArgs == {None, Some(1), Some(2)}

\* data/<hemisphere>/missing_sic_days: rows (start, end) per hemisphere
MissingCsvChoices ==
    { [h \in Hemispheres |-> IF h = "nh" THEN << r >> ELSE << <<5, 5>> >>] :
        r \in { <<2, 2>>, <<5, 6>>, <<8, 9>> } }

\* ------------------------------------------------------------- environment
\* config.polarhole1_final_date, config.polarhole2_final_date
polarhole1_final_date == 4
polarhole2_final_date == 6

\* data/nh/masks: the two polar-hole grids
polarhole1_file == {c \in Cells : c <= 2}
polarhole2_file == {c \in Cells : c <= 1}

\* data/<hemisphere>/masks/active_grid_cell_mask_<month>.npy
active_grid_cell_mask_file(hemisphere, month) ==
    IF hemisphere = "nh"
    THEN (IF month = 2 THEN {c \in Cells : c >= 2}
          ELSE IF month = 3 THEN {c \in Cells : c <= 1}
          ELSE Cells)
    ELSE (IF month = 2 THEN {c \in Cells : c # 2} ELSE {c \in Cells : c <= 2})

\* the constant of the month reweighting
loss_weight_norm == 33928

VARIABLES
    config,                    \* self.config
    rng,                       \* self.rng: the state of the seeded generator
    all_forecast_IDs,          \* self.all_forecast_IDs: sequence of <<hemisphere, date>>
    missing_dates,             \* self.missing_dates: hemisphere -> set of dates
    variable_paths,            \* self.variable_paths: the known path keys
    num_input_channels_dict,   \* insertion-ordered <<key, channels>> pairs
    tot_num_channels,          \* self.tot_num_channels
    polarhole1_mask,           \* self.polarhole1_mask
    polarhole2_mask,           \* self.polarhole2_mask
    nopolarhole_mask,          \* self.nopolarhole_mask
    thinned_IDs,               \* self.all_forecast_IDs as set_forecast_IDs left it,
                               \*   before remove_missing_dates
    twin_rng,                  \* a second loader built from the same seed, config
    twin_IDs,                  \*   and data, driven by the same operations
    calls,                     \* index-changing calls since construction
    op,                        \* the last operation called
    ret,                       \* what it returned
    training,                  \* the training loop and its two callbacks
    downloader                 \* the CMIP6 downloader and the files it sees

vars == << config, rng, all_forecast_IDs, missing_dates, variable_paths,
           num_input_channels_dict, tot_num_channels, polarhole1_mask,
           polarhole2_mask, nopolarhole_mask, thinned_IDs, twin_rng, twin_IDs, calls,
           op, ret, training, downloader >>

\* ------------------------------------------------------ the seeded generator
\* np.random.default_rng(seed): seeded when a seed is given, else from OS entropy
default_rng(seed, os_entropy) == IF seed = None THEN os_entropy ELSE Val(seed)

\* variant: the generator is created without the seed
set_seed_unseeded(seed, os_entropy) == default_rng(None, os_entropy)

\* set_seed: self.rng = np.random.default_rng(seed)
set_seed(seed, os_entropy) == default_rng(seed, os_entropy)

\* one draw of the generator
rng_next(s) == (5 * s + 3) % 16

Swap(seq, i, j) == [seq EXCEPT ![i] = seq[j], ![j] = seq[i]]

\* Generator.shuffle: for i from the last position down, swap with a drawn j <= i
RECURSIVE ShuffleFrom(_, _, _)
ShuffleFrom(ids, s, i) ==
    IF i < 2 THEN [ids |-> ids, rng |-> s]
    ELSE LET s1 == rng_next(s)
             j == (s1 % i) + 1
         IN ShuffleFrom(Swap(ids, i, j), s1, i - 1)

rng_shuffle(ids, s) == ShuffleFrom(ids, s, Len(ids))

\* Generator.choice(a, size, replace=False): the head of a permutation
rng_choice(a, size, s) ==
    LET r == rng_shuffle(a, s)
    IN [ids |-> SubSeq(r.ids, 1, size), rng |-> r.rng]

\* ---------------------------------------------------------- calendar utility
\* misc.filled_daily_dates(start, end, include_end)
filled_daily_dates(start, end, include_end) ==
    LET last == IF include_end THEN end ELSE end - 1
    IN [i \in 1..(IF last >= start THEN last - start + 1 ELSE 0) |-> start + i - 1]

\* include_end when the caller does not pass it (set_forecast_IDs)
filled_daily_dates_default_include_end == TRUE

\* ------------------------------------------------------ sample index builder
SplitBounds(entry, dataset) ==
    IF dataset = "train" THEN entry.train
    ELSE IF dataset = "val" THEN entry.val ELSE entry.test

\* '{}_sample_thin_factor'.format(dataset)
ThinKey(dataset) ==
    IF dataset = "train" THEN "train_sample_thin_factor"
    ELSE IF dataset = "val" THEN "val_sample_thin_factor" ELSE "test_sample_thin_factor"

\* the configured factor; None when the key is not in the configuration
ThinFactor(cfg, dataset) ==
    IF ThinKey(dataset) \in DOMAIN cfg THEN cfg[ThinKey(dataset)] ELSE None

\* variant: the enumeration stops the day before the end bound
RECURSIVE CandidateIDs_end_excluded(_, _, _)
CandidateIDs_end_excluded(cfg, dataset, k) ==
    IF k > Len(cfg.sample_IDs) THEN <<>>
    ELSE LET entry == cfg.sample_IDs[k]
             ends == SplitBounds(entry, dataset)
             here == IF ends = None THEN <<>>
                     ELSE LET dates == filled_daily_dates(Val(ends)[1], Val(ends)[2], FALSE)
                          IN [i \in 1..Len(dates) |-> <<entry.hemisphere, dates[i]>>]
         IN here \o CandidateIDs_end_excluded(cfg, dataset, k + 1)

\* set_forecast_IDs, the loop over config['sample_IDs']
RECURSIVE CandidateIDs(_, _, _)
CandidateIDs(cfg, dataset, k) ==
    IF k > Len(cfg.sample_IDs) THEN <<>>
    ELSE LET entry == cfg.sample_IDs[k]
             ends == SplitBounds(entry, dataset)
             here == IF ends = None THEN <<>>
                     ELSE LET dates == filled_daily_dates(Val(ends)[1], Val(ends)[2],
                                                            filled_daily_dates_default_include_end)
                          IN [i \in 1..Len(dates) |-> <<entry.hemisphere, dates[i]>>]
         IN here \o CandidateIDs(cfg, dataset, k + 1)

\* variant: the thinned size is rounded up
set_forecast_IDs_round_up(cfg, dataset, s) ==
    LET cand == CandidateIDs(cfg, dataset, 1)
        thin == ThinFactor(cfg, dataset)
    IN IF dataset \in {"train", "val"} /\ thin # None
       THEN rng_choice(cand, (Len(cand) + Val(thin) - 1) \div Val(thin), s)
       ELSE [ids |-> cand, rng |-> s]

\* set_forecast_IDs: enumerate, then thin train/val by the configured factor
set_forecast_IDs(cfg, dataset, s) ==
    LET cand == CandidateIDs(cfg, dataset, 1)
        thin == ThinFactor(cfg, dataset)
    IN IF dataset \in {"train", "val"} /\ thin # None
       THEN rng_choice(cand, Len(cand) \div Val(thin), s)
       ELSE [ids |-> cand, rng |-> s]

SicRepresentation(cfg, fmt) ==
    LET f == cfg.input_data[1].formats
    IN f[CHOOSE i \in 1..Len(f) : f[i].data_format = fmt]

SicMaxLag(cfg) ==
    LET abs == SicRepresentation(cfg, "abs")
        anom == SicRepresentation(cfg, "anom")
        max_lags == (IF abs.include THEN {abs.max_lag} ELSE {})
                    \cup (IF anom.include THEN {anom.max_lag} ELSE {})
    IN SetMax(max_lags)

\* variant: the lags start at 0, so the forecast start date itself is an input
all_sic_input_dates_including_start(cfg, forecast_start_date) ==
    [k \in 1..(SicMaxLag(cfg) + 1) |-> forecast_start_date - (k - 1)]

all_sic_input_dates_from_forecast_start_date(cfg, forecast_start_date) ==
    [lag \in 1..SicMaxLag(cfg) |-> forecast_start_date - lag]

Range(seq) == {seq[i] : i \in 1..Len(seq)}

check_for_missing_date_dependence(cfg, missing, hemisphere, forecast_start_date) ==
    LET input_dates == all_sic_input_dates_from_forecast_start_date(cfg, forecast_start_date)
    IN \E i \in 1..Len(input_dates) :
          \E missing_date \in missing[hemisphere] : input_dates[i] = missing_date

remove_missing_dates(cfg, missing, ids) ==
    SelectSeq(ids, LAMBDA id :
        ~check_for_missing_date_dependence(cfg, missing, id[1], id[2]))

\* load_missing_dates: each row expanded to its days, end included
RECURSIVE ExpandRows(_, _)
ExpandRows(rows, k) ==
    IF k > Len(rows) THEN {}
    ELSE Range(filled_daily_dates(rows[k][1], rows[k][2], TRUE)) \cup ExpandRows(rows, k + 1)

load_missing_dates(csv) == [h \in Hemispheres |-> ExpandRows(csv[h], 1)]

\* --- the same with the sub-day components of the timestamps: a datetime is
\* <<day, hour, minute, second>>
Midnight(d) == <<d, 0, 0, 0>>

\* datetime.replace(hour=0)
replace_hour_0(dt) == <<dt[1], 0, dt[3], dt[4]>>

\* a <= b on datetimes
DatetimeLeq(a, b) ==
    \/ a[1] < b[1]
    \/ a[1] = b[1] /\ a[2] < b[2]
    \/ a[1] = b[1] /\ a[2] = b[2] /\ a[3] < b[3]
    \/ a[1] = b[1] /\ a[2] = b[2] /\ a[3] = b[3] /\ a[4] <= b[4]

\* misc.filled_daily_dates(start, end, include_end=True) on datetimes: start
\* and the datetimes whole days after it, up to end
filled_daily_datetimes(start, end) ==
    { <<start[1] + k, start[2], start[3], start[4]>> :
        k \in {j \in 0..(IF end[1] >= start[1] THEN end[1] - start[1] ELSE 0) :
                 DatetimeLeq(<<start[1] + j, start[2], start[3], start[4]>>, end)} }

\* load_missing_dates, one row of the file
missing_dates_of_row(row) ==
    LET start == replace_hour_0(row.start)
        end == replace_hour_0(row.end)
    IN filled_daily_datetimes(start, end)

\* any([input_date == missing_date for missing_date in self.missing_dates[hemisphere]])
is_missing(input_date, missing) == \E missing_date \in missing : input_date = missing_date

\* ------------------------------------------------------- channel bookkeeping
\* the included (variable, representation) slots, in insertion order
RECURSIVE FormatSlots(_, _, _)
FormatSlots(varname, formats, k) ==
    IF k > Len(formats) THEN <<>>
    ELSE (IF formats[k].include
          THEN << [varname |-> varname, data_format |-> formats[k].data_format,
                   metadata |-> FALSE, max_lag |-> formats[k].max_lag] >>
          ELSE <<>>) \o FormatSlots(varname, formats, k + 1)

RECURSIVE InputSlots(_, _)
InputSlots(input_data, k) ==
    IF k > Len(input_data) THEN <<>>
    ELSE LET v == input_data[k]
         IN (IF ~v.metadata THEN FormatSlots(v.varname, v.formats, 1)
             ELSE IF v.include
                  THEN << [varname |-> v.varname, data_format |-> "metadata",
                           metadata |-> TRUE, max_lag |-> 0] >>
                  ELSE <<>>) \o InputSlots(input_data, k + 1)

SlotKey(slot) == IF slot.metadata THEN <<slot.varname>> ELSE <<slot.varname, slot.data_format>>

\* set_variable_path_formats: one path per hemisphere and included slot
set_variable_path_formats(cfg) ==
    LET slots == InputSlots(cfg.input_data, 1)
    IN { <<h>> \o SlotKey(slots[i]) :
           h \in Hemispheres,
           i \in {k \in 1..Len(slots) :
                    slots[k].metadata => slots[k].varname \in {"land", "circday"}} }

\* variant: the day encoding is counted as one channel
SlotChannels_circday_one(cfg, slot) ==
    IF ~slot.metadata
    THEN (IF slot.data_format # "linear_trend" THEN slot.max_lag ELSE cfg.n_forecast_days)
    ELSE 1

SlotChannels(cfg, slot) ==
    IF ~slot.metadata
    THEN (IF slot.data_format # "linear_trend" THEN slot.max_lag ELSE cfg.n_forecast_days)
    ELSE (IF slot.varname = "land" THEN 1 ELSE 2)

set_number_of_input_channels_for_each_input_variable(cfg) ==
    LET slots == SelectSeq(InputSlots(cfg.input_data, 1), LAMBDA sl :
                    sl.metadata => sl.varname \in {"land", "circday"})
    IN [i \in 1..Len(slots) |-> <<SlotKey(slots[i]), SlotChannels(cfg, slots[i])>>]

\* determine_variable_names: the names one slot contributes; a name is
\* <<varname, data_format, lag or leadtime>>, <<"land">>, <<"cos(day)">> or <<"sin(day)">>
SlotNames(cfg, slot) ==
    IF ~slot.metadata
    THEN [i \in 1..(IF slot.data_format # "linear_trend" THEN slot.max_lag
                    ELSE cfg.n_forecast_days) |->
            <<slot.varname, slot.data_format, i>>]
    ELSE IF slot.varname = "land" THEN << <<"land">> >>
    ELSE IF slot.varname = "circday" THEN << <<"cos(day)">>, <<"sin(day)">> >>
    ELSE <<>>

RECURSIVE NamesFrom(_, _, _)
NamesFrom(cfg, slots, k) ==
    IF k > Len(slots) THEN <<>>
    ELSE SlotNames(cfg, slots[k]) \o NamesFrom(cfg, slots, k + 1)

determine_variable_names(cfg) == NamesFrom(cfg, InputSlots(cfg.input_data, 1), 1)

RECURSIVE SumChannels(_, _)
SumChannels(dict, k) ==
    IF k > Len(dict) THEN 0 ELSE dict[k][2] + SumChannels(dict, k + 1)

determine_tot_num_channels(dict) == SumChannels(dict, 1)

\* ------------------------------------------------------------- construction
\* __init__: seed, build the train index, exclude, set up paths, channels and
\* polar holes, then shuffle once.
Constructed(cfg, seedArg, os_entropy, csv) ==
    LET s0 == IF seedArg = None
              THEN set_seed(Some(cfg.default_seed), os_entropy)
              ELSE set_seed(seedArg, os_entropy)
        built == set_forecast_IDs(cfg, "train", s0)
        missing == load_missing_dates(csv)
        kept == remove_missing_dates(cfg, missing, built.ids)
        shuffled == rng_shuffle(kept, built.rng)
    IN [ids |-> shuffled.ids, rng |-> shuffled.rng, missing |-> missing,
        thinned |-> built.ids]

SicEnabled(cfg) ==
    SicRepresentation(cfg, "abs").include \/ SicRepresentation(cfg, "anom").include

\* the loader as __init__(cfg, seed) leaves it, csv being the missing-days files
ConstructsLoader(cfg, seedArg, csv) ==
        /\ SicEnabled(cfg)
        /\ LET a == Constructed(cfg, seedArg, 7, csv)
               b == Constructed(cfg, seedArg, 11, csv)
               dict == set_number_of_input_channels_for_each_input_variable(cfg)
           IN /\ config = cfg
              /\ rng = a.rng
              /\ all_forecast_IDs = a.ids
              /\ missing_dates = a.missing
              /\ thinned_IDs = a.thinned
              /\ twin_rng = b.rng
              /\ twin_IDs = b.ids
              /\ variable_paths = set_variable_path_formats(cfg)
              /\ num_input_channels_dict = dict
              /\ tot_num_channels = determine_tot_num_channels(dict)
        /\ polarhole1_mask = polarhole1_file
        /\ polarhole2_mask = polarhole2_file
        /\ nopolarhole_mask = {}
        /\ calls = 0
        /\ op = [name |-> "__init__"]
        /\ ret = [kind |-> "none"]

\* no training loop is running and no downloader was made
NoTraining == [stage |-> "none"]
NoDownloader == [stage |-> "none"]

\* the loader alone
Constructs(cfg, seedArg, csv) ==
    /\ ConstructsLoader(cfg, seedArg, csv)
    /\ training = NoTraining
    /\ downloader = NoDownloader

Init ==
    \E cfg \in Configs, seedArg \in SeedArgs, csv \in MissingCsvChoices :
        Constructs(cfg, seedArg, csv)

\* ------------------------------------------------------------ epoch iterator
\* on_epoch_end: shuffle the sample list in place with the seeded generator
on_epoch_end ==
    /\ calls < MaxCalls
    /\ LET a == rng_shuffle(all_forecast_IDs, rng)
           b == rng_shuffle(twin_IDs, twin_rng)
       IN /\ all_forecast_IDs' = a.ids
          /\ rng' = a.rng
          /\ twin_IDs' = b.ids
          /\ twin_rng' = b.rng
    /\ calls' = calls + 1
    /\ op' = [name |-> "on_epoch_end"]
    /\ ret' = [kind |-> "none"]
    /\ UNCHANGED << training, downloader, config, missing_dates, variable_paths, num_input_channels_dict,
                    tot_num_channels, polarhole1_mask, polarhole2_mask, nopolarhole_mask,
                    thinned_IDs >>

\* variant: the division is rounded down
CeilDiv_floor(a, b) == a \div b

\* int(np.ceil(a / b)) for a >= 0, b >= 1
CeilDiv(a, b) == (a + b - 1) \div b

NumBatches(ids, cfg) == CeilDiv(Len(ids), cfg.batch_size)

\* __len__
len ==
    /\ op' = [name |-> "__len__"]
    /\ ret' = [kind |-> "len", value |-> NumBatches(all_forecast_IDs, config)]
    /\ UNCHANGED << training, downloader, config, rng, all_forecast_IDs, missing_dates, variable_paths,
                    num_input_channels_dict, tot_num_channels, polarhole1_mask,
                    polarhole2_mask, nopolarhole_mask, thinned_IDs, twin_rng, twin_IDs,
                    calls >>

\* variant: the rebuilt identifiers are appended to the list of the old split
ConvertTo_merging(dataset) ==
    LET a == set_forecast_IDs(config, dataset, rng)
        b == set_forecast_IDs(config, dataset, twin_rng)
    IN /\ calls < MaxCalls
       /\ calls' = calls + 1
       /\ thinned_IDs' = a.ids
       /\ all_forecast_IDs' =
              remove_missing_dates(config, missing_dates, all_forecast_IDs \o a.ids)
       /\ rng' = a.rng
       /\ twin_IDs' = remove_missing_dates(config, missing_dates, twin_IDs \o b.ids)
       /\ twin_rng' = b.rng
       /\ ret' = [kind |-> "none"]
       /\ UNCHANGED << training, downloader, config, missing_dates, variable_paths, num_input_channels_dict,
                       tot_num_channels, polarhole1_mask, polarhole2_mask,
                       nopolarhole_mask >>

\* convert_to_validation_data_loader / convert_to_test_data_loader
ConvertTo(dataset) ==
    LET a == set_forecast_IDs(config, dataset, rng)
        b == set_forecast_IDs(config, dataset, twin_rng)
    IN /\ calls < MaxCalls
       /\ calls' = calls + 1
       /\ thinned_IDs' = a.ids
       /\ all_forecast_IDs' = remove_missing_dates(config, missing_dates, a.ids)
       /\ rng' = a.rng
       /\ twin_IDs' = remove_missing_dates(config, missing_dates, b.ids)
       /\ twin_rng' = b.rng
       /\ ret' = [kind |-> "none"]
       /\ UNCHANGED << training, downloader, config, missing_dates, variable_paths, num_input_channels_dict,
                       tot_num_channels, polarhole1_mask, polarhole2_mask,
                       nopolarhole_mask >>

convert_to_validation_data_loader ==
    /\ op' = [name |-> "convert_to_validation_data_loader"]
    /\ ConvertTo("val")

convert_to_test_data_loader ==
    /\ op' = [name |-> "convert_to_test_data_loader"]
    /\ ConvertTo("test")

\* ------------------------------------------------------------ mask provider
\* variant: the epoch boundaries are compared strictly
determine_polar_hole_mask_strict(hemisphere, forecast_start_date) ==
    IF hemisphere = "sh"
    THEN [epoch |-> "none", mask |-> nopolarhole_mask]
    ELSE LET oldest_input_date ==
                 SetMin(Range(all_sic_input_dates_from_forecast_start_date(
                                  config, forecast_start_date)))
         IN IF oldest_input_date < polarhole1_final_date
            THEN [epoch |-> "polarhole1", mask |-> polarhole1_mask]
            ELSE IF oldest_input_date < polarhole2_final_date
                 THEN [epoch |-> "polarhole2", mask |-> polarhole2_mask]
                 ELSE [epoch |-> "none", mask |-> nopolarhole_mask]

\* determine_polar_hole_mask: the mask and the epoch it belongs to
determine_polar_hole_mask(hemisphere, forecast_start_date) ==
    IF hemisphere = "sh"
    THEN [epoch |-> "none", mask |-> nopolarhole_mask]
    ELSE LET oldest_input_date ==
                 SetMin(Range(all_sic_input_dates_from_forecast_start_date(
                                  config, forecast_start_date)))
         IN IF oldest_input_date <= polarhole1_final_date
            THEN [epoch |-> "polarhole1", mask |-> polarhole1_mask]
            ELSE IF oldest_input_date <= polarhole2_final_date
                 THEN [epoch |-> "polarhole2", mask |-> polarhole2_mask]
                 ELSE [epoch |-> "none", mask |-> nopolarhole_mask]

\* variant: the polar hole toggles the cells instead of clearing them
RemoveCells_toggle(grid, mask) == (grid \ mask) \cup (mask \ grid)

\* output_active_grid_cell_mask[polarhole_mask] = False
RemoveCells(grid, mask) == grid \ mask

\* determine_active_grid_cell_mask: the month's land/ocean grid of forecast_date
\* with the polar hole selected from forecast_date removed
determine_active_grid_cell_mask(hemisphere, forecast_date) ==
    LET output_active_grid_cell_mask ==
            active_grid_cell_mask_file(hemisphere, Month(forecast_date))
        polarhole == determine_polar_hole_mask(hemisphere, forecast_date)
    IN [mask |-> RemoveCells(output_active_grid_cell_mask, polarhole.mask),
        polarhole |-> polarhole.epoch]

\* ----------------------------------------------------------- batch assembler
\* a weight is a rational <<numerator, denominator>>; <<0, 0>> is NaN
Zero == <<0, 1>>
One == <<1, 1>>
NaN == <<0, 0>>

\* variant: the day before the target is looked up
TargetMissing_previous_day(hemisphere, forecast_target_date) ==
    \E missing_date \in missing_dates[hemisphere] : forecast_target_date - 1 = missing_date

\* the target date is in the missing-date list of the hemisphere
TargetMissing(hemisphere, forecast_target_date) ==
    \E missing_date \in missing_dates[hemisphere] : forecast_target_date = missing_date

\* data_generation, the weight of one (sample, lead)
sample_weight(hemisphere, forecast_target_date) ==
    IF TargetMissing(hemisphere, forecast_target_date)
    THEN [c \in Cells |-> Zero]
    ELSE LET active == determine_active_grid_cell_mask(hemisphere, forecast_target_date).mask
             total == Cardinality(active)
         IN IF config.loss_weight_months
            THEN [c \in Cells |->
                    IF total = 0 THEN NaN
                    ELSE IF c \in active THEN <<loss_weight_norm, total>> ELSE Zero]
            ELSE [c \in Cells |-> IF c \in active THEN One ELSE Zero]

\* the polar hole chosen for the weight of one (sample, lead)
sample_polarhole(hemisphere, forecast_target_date) ==
    IF TargetMissing(hemisphere, forecast_target_date)
    THEN "unused"
    ELSE determine_active_grid_cell_mask(hemisphere, forecast_target_date).polarhole

\* data_generation, the dates a time-varying slot loads, in channel order
input_months(slot, forecast_start_date) ==
    LET present_date == forecast_start_date - 1
    IN IF slot.data_format # "linear_trend"
       THEN [lag \in 1..slot.max_lag |-> present_date - lag]
       ELSE [lead \in 1..config.n_forecast_days |-> present_date + lead]

HasKey(dict, key) == \E i \in 1..Len(dict) : dict[i][1] = key
Lookup(dict, key) == dict[CHOOSE i \in 1..Len(dict) : dict[i][1] = key][2]

Loaded(varname, fmt, key) == [var |-> varname, fmt |-> fmt, key |-> key]

\* os.path.exists / np.load finding the file of an array; absent: the files
\* that are not on disk (siconca/abs by date, other kinds as a whole)
Exists(array, absent) ==
    /\ ~(array.var = "siconca" /\ array.fmt = "abs" /\ array.key[1] \in absent.abs_dates)
    /\ <<array.var, array.fmt>> \notin absent.kinds

\* variant: an input file that is not on disk is skipped
AllExist_lenient(arrays, absent) == TRUE

\* np.load of every array of a slot: all the files are there
AllExist(arrays, absent) == \A i \in 1..Len(arrays) : Exists(arrays[i], absent)

\* what a slot writes, channel by channel
SlotArrays(slot, forecast_start_date) ==
    IF ~slot.metadata
    THEN LET dates == input_months(slot, forecast_start_date)
         IN [i \in 1..Len(dates) |-> Loaded(slot.varname, slot.data_format, <<dates[i]>>)]
    ELSE IF slot.varname = "land"
         THEN << Loaded("land", "meta", <<>>) >>
         ELSE IF slot.varname = "circday"
              THEN << Loaded("circday", "cos",
                             <<Month(forecast_start_date), Day(forecast_start_date)>>),
                      Loaded("circday", "sin",
                             <<Month(forecast_start_date), Day(forecast_start_date)>>) >>
              ELSE <<>>

\* the input loop of one sample: X starts as zeros and every included slot
\* writes X[variable_idx1:variable_idx2]; a failure leaves no tensor.
RECURSIVE FillX(_, _, _, _, _, _)
FillX(slots, k, variable_idx1, X, forecast_start_date, absent) ==
    IF k > Len(slots) THEN [status |-> "ok", X |-> X]
    ELSE LET slot == slots[k]
             key == SlotKey(slot)
         IN IF ~HasKey(num_input_channels_dict, key)
            THEN [status |-> "KeyError", X |-> <<>>]
            ELSE LET n == Lookup(num_input_channels_dict, key)
                     variable_idx2 == variable_idx1 + n
                     arrays == SlotArrays(slot, forecast_start_date)
                     room == IF variable_idx2 <= Len(X) THEN n
                             ELSE IF variable_idx1 >= Len(X) THEN 0
                             ELSE Len(X) - variable_idx1
                 IN IF ~AllExist(arrays, absent)
                    THEN [status |-> "FileNotFoundError", X |-> <<>>]
                    ELSE IF ~slot.metadata /\ room # Len(arrays)
                    THEN [status |-> "ValueError", X |-> <<>>]
                    ELSE IF slot.metadata /\ variable_idx1 + Len(arrays) > Len(X)
                    THEN [status |-> "IndexError", X |-> <<>>]
                    ELSE FillX(slots, k + 1, variable_idx2,
                               [c \in 1..Len(X) |->
                                  IF c > variable_idx1 /\ c <= variable_idx1 + Len(arrays)
                                  THEN [array |-> arrays[c - variable_idx1],
                                        exists |-> Exists(arrays[c - variable_idx1], absent)]
                                  ELSE X[c]],
                               forecast_start_date, absent)

sample_X(forecast_start_date, absent) ==
    FillX(InputSlots(config.input_data, 1), 1, 0,
          [c \in 1..tot_num_channels |->
              [array |-> Loaded("zeros", "zeros", <<>>), exists |-> FALSE]],
          forecast_start_date, absent)

\* data_generation(forecast_IDs); absent: the files that are not on disk
data_generation(forecast_IDs, absent) ==
    LET leads == 0..(config.n_forecast_days - 1)
        n == Len(forecast_IDs)
        xs == [s \in 1..n |-> sample_X(forecast_IDs[s][2], absent)]
        target(s, l) == Loaded("siconca", "abs", <<forecast_IDs[s][2] + l>>)
    IN IF \E s \in 1..n : <<forecast_IDs[s][1], "siconca", "abs">> \notin variable_paths
       THEN [kind |-> "batch", status |-> "KeyError", IDs |-> forecast_IDs]
       ELSE IF \E s \in 1..n : xs[s].status # "ok"
       THEN [kind |-> "batch",
             status |-> xs[CHOOSE s \in 1..n : xs[s].status # "ok"].status,
             IDs |-> forecast_IDs]
       ELSE [kind |-> "batch", status |-> "ok", IDs |-> forecast_IDs,
             X |-> [s \in 1..n |-> xs[s].X],
             y0 |-> [s \in 1..n |-> [l \in leads |->
                        IF Exists(target(s, l), absent)
                        THEN [exists |-> TRUE, value |-> "artifact"]
                        ELSE [exists |-> FALSE, value |-> "nan"]]],
             y1 |-> [s \in 1..n |-> [l \in leads |->
                        sample_weight(forecast_IDs[s][1], forecast_IDs[s][2] + l)]],
             polarhole |-> [s \in 1..n |-> [l \in leads |->
                        sample_polarhole(forecast_IDs[s][1], forecast_IDs[s][2] + l)]]]

\* the positions __getitem__ takes for batch_idx
sample_idxs(batch_idx) ==
    LET batch_start == batch_idx * config.batch_size
        next == (batch_idx + 1) * config.batch_size
        batch_end == IF next < Len(all_forecast_IDs) THEN next ELSE Len(all_forecast_IDs)
    IN [i \in 1..(IF batch_end > batch_start THEN batch_end - batch_start ELSE 0) |->
          batch_start + i - 1]

\* the siconca/abs files that may be absent when a batch is assembled
AbsentChoices ==
    { [abs_dates |-> {}, kinds |-> {}],
      [abs_dates |-> missing_dates["nh"] \cup missing_dates["sh"] \cup {7, 11},
       kinds |-> {}] }

\* the other input files that may be absent, one kind at a time
InputAbsentChoices ==
    { [abs_dates |-> {}, kinds |-> {k}] :
        k \in { <<"siconca", "anom">>, <<"siconca", "linear_trend">>,
                <<"land", "meta">>, <<"circday", "cos">>, <<"circday", "sin">> } }

\* __getitem__(batch_idx): what it computes and returns
GetItemReturns(batch_idx, absent) ==
    LET idxs == sample_idxs(batch_idx)
        batch_IDs == [i \in 1..Len(idxs) |-> all_forecast_IDs[idxs[i] + 1]]
    IN /\ op' = [name |-> "__getitem__", batch_idx |-> batch_idx, sample_idxs |-> idxs]
       /\ ret' = data_generation(batch_IDs, absent)

\* variant: serving the last batch of an epoch reshuffles the samples
getitem_reshuffling ==
    \E batch_idx \in 0..(NumBatches(all_forecast_IDs, config) - 1), absent \in AbsentChoices :
        /\ GetItemReturns(batch_idx, absent)
        /\ IF batch_idx = NumBatches(all_forecast_IDs, config) - 1
           THEN LET a == rng_shuffle(all_forecast_IDs, rng)
                IN all_forecast_IDs' = a.ids /\ rng' = a.rng
           ELSE UNCHANGED << training, downloader, all_forecast_IDs, rng >>
        /\ UNCHANGED << training, downloader, config, missing_dates, variable_paths,
                        num_input_channels_dict, tot_num_channels, polarhole1_mask,
                        polarhole2_mask, nopolarhole_mask, thinned_IDs, twin_rng,
                        twin_IDs, calls >>

\* __getitem__(batch_idx)
getitem ==
    \E batch_idx \in 0..(NumBatches(all_forecast_IDs, config) - 1), absent \in AbsentChoices :
        /\ GetItemReturns(batch_idx, absent)
        /\ UNCHANGED << training, downloader, config, rng, all_forecast_IDs, missing_dates, variable_paths,
                        num_input_channels_dict, tot_num_channels, polarhole1_mask,
                        polarhole2_mask, nopolarhole_mask, thinned_IDs, twin_rng,
                        twin_IDs, calls >>

\* __getitem__(batch_idx) with any one kind of file possibly absent
getitem_files ==
    \E batch_idx \in 0..(NumBatches(all_forecast_IDs, config) - 1),
       absent \in AbsentChoices \cup InputAbsentChoices :
        /\ GetItemReturns(batch_idx, absent)
        /\ UNCHANGED << training, downloader, config, rng, all_forecast_IDs, missing_dates, variable_paths,
                        num_input_channels_dict, tot_num_channels, polarhole1_mask,
                        polarhole2_mask, nopolarhole_mask, thinned_IDs, twin_rng,
                        twin_IDs, calls >>

\* ------------------------------------------------------------ normalisation
\* IceNet2DataPreProcessor.  An array has one value per time step: Some(v) or
\* NaNValue.  A mean is a rational <<numerator, denominator>>, a standard
\* deviation is held as its square, also a rational; <<0, 0>> is NaN.  A
\* minimum or maximum is a value.
NaNValue == <<>>
Times == 1..MaxTime

\* variant: the statistics are taken over the whole array
training_samples_whole_array(da, obs_train_dates) == [t \in Times |-> da[t]]

\* da.sel(time=self.obs_train_dates).data.ravel()
training_samples(da, obs_train_dates) ==
    LET picked == SelectSeq([t \in Times |-> t], LAMBDA t : t \in obs_train_dates)
    IN [i \in 1..Len(picked) |-> da[picked[i]]]

\* the non-NaN numbers of a list
FiniteOf(list) ==
    LET kept == SelectSeq(list, LAMBDA x : x # NaNValue)
    IN [i \in 1..Len(kept) |-> Val(kept[i])]

\* mean_and_std: np.nanmean and np.nanstd
mean_and_std(list) ==
    LET xs == FiniteOf(list)
        n == Len(xs)
        sum == SeqSum(xs, 1)
        sumsq == SeqSum([i \in 1..n |-> xs[i] * xs[i]], 1)
    IN IF n = 0 THEN [mean |-> NaN, std |-> NaN]
       ELSE [mean |-> <<sum, n>>, std |-> <<n * sumsq - sum * sum, n * n>>]

\* np.nanmin, np.nanmax
nanmin(list) ==
    IF Len(FiniteOf(list)) = 0 THEN NaNValue ELSE Some(SetMin(Range(FiniteOf(list))))
nanmax(list) ==
    IF Len(FiniteOf(list)) = 0 THEN NaNValue ELSE Some(SetMax(Range(FiniteOf(list))))

\* max - min
Minus(a, b) == IF a = NaNValue \/ b = NaNValue THEN NaNValue ELSE Some(Val(a) - Val(b))

\* variant: a missing statistic makes both be computed
mean_std_used_recomputed(mean, std, samples) ==
    IF mean = None \/ std = None
    THEN mean_and_std(samples)
    ELSE [mean |-> Val(mean), std |-> Val(std)]

\* the three branches on mean and std being None
mean_std_used(mean, std, samples) ==
    IF mean = None /\ std = None THEN mean_and_std(samples)
    ELSE IF mean # None /\ std = None
         THEN [mean |-> Val(mean), std |-> mean_and_std(samples).std]
    ELSE IF mean = None /\ std # None
         THEN [mean |-> mean_and_std(samples).mean, std |-> Val(std)]
    ELSE [mean |-> Val(mean), std |-> Val(std)]

\* normalise_array_using_all_training_data; new_da[t] stands for
\* (x - sub) / div, and first, second are the two statistics returned
normalise(obs_train_dates, da, minmax, mean, std, min, max) ==
    LET samples == training_samples(da, obs_train_dates)
    IN IF ~minmax
       THEN LET used == mean_std_used(mean, std, samples)
            IN [new_da |-> [t \in Times |->
                              [x |-> da[t], sub |-> used.mean, div |-> used.std]],
                first |-> used.mean, second |-> used.std]
       ELSE LET min_used == IF min = None THEN nanmin(samples) ELSE Val(min)
                max_used == IF max = None THEN nanmax(samples) ELSE Val(max)
            IN [new_da |-> [t \in Times |->
                              [x |-> da[t], sub |-> min_used,
                               div |-> Minus(max_used, min_used)]],
                first |-> min_used, second |-> max_used]

NormValues == {NaNValue} \cup {Some(v) : v \in 0..MaxValue}
NormArrays == [Times -> NormValues]
TrainWindows == { 1..k : k \in 1..(MaxTime - 1) }

\* the statistics a caller may pass
MeanChoices == {None, Some(<<5, 1>>)}
StdChoices == {None, Some(<<4, 1>>)}
MinChoices == {None, Some(Some(0))}
MaxChoices == {None, Some(Some(3))}

\* normalise_array_using_all_training_data, called with the same arguments on
\* da and on an array that differs from it at the last time step.  It changes
\* no state, so one call per behaviour is explored.
normalise_array_using_all_training_data ==
    /\ op.name = "__init__"
    /\ \E da \in NormArrays, v \in NormValues, obs_train_dates \in TrainWindows,
          minmax \in BOOLEAN, mean \in MeanChoices, std \in StdChoices,
          min \in MinChoices, max \in MaxChoices :
        LET other == [da EXCEPT ![MaxTime] = v]
        IN /\ op' = [name |-> "normalise_array_using_all_training_data",
                     obs_train_dates |-> obs_train_dates, da |-> da, other |-> other,
                     minmax |-> minmax, mean |-> mean, std |-> std,
                     min |-> min, max |-> max]
           /\ ret' = [kind |-> "normalised",
                      out |-> normalise(obs_train_dates, da, minmax, mean, std, min, max),
                      out_other |-> normalise(obs_train_dates, other, minmax, mean, std,
                                              min, max)]
           /\ UNCHANGED << training, downloader, config, rng, all_forecast_IDs, missing_dates, variable_paths,
                           num_input_channels_dict, tot_num_channels, polarhole1_mask,
                           polarhole2_mask, nopolarhole_mask, thinned_IDs, twin_rng,
                           twin_IDs, calls >>

\* the value of (x - sub) / div in floating point: a number, NaN, or an
\* infinity.  sub is a mean (a rational) or a minimum (a value), div the
\* square of a standard deviation (a rational) or max - min (a value).
Sign(n) == IF n > 0 THEN 1 ELSE IF n < 0 THEN -1 ELSE 0

QuotientKind(numerator_is_nan, numerator_sign, div_is_nan, div_is_zero) ==
    IF numerator_is_nan \/ div_is_nan THEN "nan"
    ELSE IF ~div_is_zero THEN "finite"
    ELSE IF numerator_sign = 0 THEN "nan"
    ELSE IF numerator_sign > 0 THEN "inf"
    ELSE "-inf"

FloatKind(cell, minmax) ==
    IF ~minmax
    THEN QuotientKind(cell.x = NaNValue \/ cell.sub = NaN,
                      IF cell.x = NaNValue \/ cell.sub = NaN THEN 0
                      ELSE Sign(Val(cell.x) * cell.sub[2] - cell.sub[1]),
                      cell.div = NaN,
                      cell.div # NaN /\ cell.div[1] = 0)
    ELSE QuotientKind(cell.x = NaNValue \/ cell.sub = NaNValue,
                      IF cell.x = NaNValue \/ cell.sub = NaNValue THEN 0
                      ELSE Sign(Val(cell.x) - Val(cell.sub)),
                      cell.div = NaNValue,
                      cell.div # NaNValue /\ Val(cell.div) = 0)

\* da.data[np.isnan(da.data)] = 0.
nan_to_zero(kind) == IF kind = "nan" THEN "finite" ELSE kind

SaveVarnames == {"siconca", "tas"}

\* save_variable followed by save_xarray_in_daily_averages: the kind of value
\* in each daily file.  siconca is saved unnormalised.
saved_daily_files(varname, da, minmax, obs_train_dates) ==
    IF varname = "siconca"
    THEN [t \in Times |-> nan_to_zero(IF da[t] = NaNValue THEN "nan" ELSE "finite")]
    ELSE LET out == normalise(obs_train_dates, da, minmax, None, None, None, None)
         IN [t \in Times |-> nan_to_zero(FloatKind(out.new_da[t], minmax))]

save_variable ==
    /\ op.name = "__init__"
    /\ \E varname \in SaveVarnames, da \in NormArrays, obs_train_dates \in TrainWindows,
          minmax \in BOOLEAN :
        /\ op' = [name |-> "save_variable", varname |-> varname, da |-> da,
                  obs_train_dates |-> obs_train_dates, minmax |-> minmax]
        /\ ret' = [kind |-> "saved",
                   before |-> IF varname = "siconca"
                              THEN [t \in Times |->
                                      IF da[t] = NaNValue THEN "nan" ELSE "finite"]
                              ELSE [t \in Times |->
                                      FloatKind(normalise(obs_train_dates, da, minmax, None,
                                                          None, None, None).new_da[t],
                                                minmax)],
                   files |-> saved_daily_files(varname, da, minmax, obs_train_dates)]
        /\ UNCHANGED << training, downloader, config, rng, all_forecast_IDs, missing_dates, variable_paths,
                        num_input_channels_dict, tot_num_channels, polarhole1_mask,
                        polarhole2_mask, nopolarhole_mask, thinned_IDs, twin_rng,
                        twin_IDs, calls >>

\* -------------------------------------------------------------------- paths
\* A path is a sequence of characters and names; os.path.join puts "/"
\* between its parts.  A year has 12 months of DaysPerMonth days and day 0 is
\* the first day of 2012.
DaysPerYear == 12 * DaysPerMonth
Year(d) == 2012 + (d \div DaysPerYear)

DigitChars == << "0", "1", "2", "3", "4", "5", "6", "7", "8", "9" >>

\* the decimal digits of n, without padding
RECURSIVE Decimal(_)
Decimal(n) ==
    IF n < 10 THEN << DigitChars[n + 1] >>
    ELSE Append(Decimal(n \div 10), DigitChars[(n % 10) + 1])

\* '{:0<width>d}'.format(n), and strftime's %m and %d with width 2
ZeroPadded(n, width) ==
    LET digits == Decimal(n)
        missing == IF Len(digits) >= width THEN 0 ELSE width - Len(digits)
    IN [i \in 1..missing |-> "0"] \o digits

RECURSIVE os_path_join(_)
os_path_join(parts) ==
    IF Len(parts) = 1 THEN parts[1]
    ELSE parts[1] \o << "/" >> \o os_path_join(Tail(parts))

\* os.path.join('data', 'network_datasets', dataset_name), on both sides
dataset_path(dataset_name) ==
    os_path_join(<< <<"data">>, <<"network_datasets">>, <<dataset_name>> >>)

\* date_datetime.strftime('%Y_%m_%d.npy'); %Y prints the year unpadded
strftime_Y_m_d_npy(d) ==
    Decimal(Year(d)) \o <<"_">> \o ZeroPadded(Month(d), 2) \o <<"_">>
        \o ZeroPadded(Day(d), 2) \o <<".npy">>

\* the file save_xarray_in_daily_averages writes for one time step
written_daily_path(dataset_name, hemisphere, varname, data_format, d) ==
    os_path_join(<< os_path_join(<< dataset_path(dataset_name), <<hemisphere>>, <<"obs">>,
                                    <<varname>>, <<data_format>> >>),
                    strftime_Y_m_d_npy(d) >>)

\* variant: the numbers are formatted without padding
format_date_unpadded(year, month, day) ==
    Decimal(year) \o <<"_">> \o Decimal(month) \o <<"_">> \o Decimal(day) \o <<".npy">>

\* '{:04d}_{:02d}_{:02d}.npy'.format(year, month, day)
format_date(year, month, day) ==
    ZeroPadded(year, 4) \o <<"_">> \o ZeroPadded(month, 2) \o <<"_">>
        \o ZeroPadded(day, 2) \o <<".npy">>

\* self.variable_paths[hemisphere][varname][data_format].format(date.year,
\* date.month, date.day)
read_daily_path(dataset_name, hemisphere, varname, data_format, d) ==
    os_path_join(<< dataset_path(dataset_name), <<hemisphere>>, <<"obs">>, <<varname>>,
                    <<data_format>>, format_date(Year(d), Month(d), Day(d)) >>)

\* the land file, written and read
written_land_path(dataset_name, hemisphere) ==
    os_path_join(<< os_path_join(<< dataset_path(dataset_name), <<hemisphere>>,
                                    <<"meta">> >>),
                    <<"land.npy">> >>)
read_land_path(dataset_name, hemisphere) ==
    os_path_join(<< dataset_path(dataset_name), <<hemisphere>>, <<"meta">>,
                    <<"land.npy">> >>)

\* date.strftime('cos_month_%m_%d.npy') and its sin twin, one pair of files
\* for each day of the year 2012
written_circday_paths(dataset_name, hemisphere) ==
    { os_path_join(<< os_path_join(<< dataset_path(dataset_name), <<hemisphere>>,
                                      <<"meta">> >>),
                      <<fn>> \o <<"_month_">> \o ZeroPadded(Month(d), 2) \o <<"_">>
                          \o ZeroPadded(Day(d), 2) \o <<".npy">> >>) :
        fn \in {"cos", "sin"}, d \in 0..(DaysPerYear - 1) }

\* self.variable_paths[hemisphere]['circday'].format(fn, month, day)
read_circday_path(dataset_name, hemisphere, fn, d) ==
    os_path_join(<< dataset_path(dataset_name), <<hemisphere>>, <<"meta">>,
                    <<fn>> \o <<"_month_">> \o ZeroPadded(Month(d), 2) \o <<"_">>
                        \o ZeroPadded(Day(d), 2) \o <<".npy">> >>)

PathVarnames == {"siconca", "tas"}
PathFormats == {"abs", "anom", "linear_trend"}
PathDates == 0..(DaysPerYear + DaysPerMonth - 1)
PathKeys == Hemispheres \X PathVarnames \X PathFormats \X PathDates

\* one daily file written by the preprocessor and read back by the loader
daily_file_round_trip ==
    /\ op.name = "__init__"
    /\ \E key \in PathKeys :
        /\ op' = [name |-> "daily_file", key |-> key]
        /\ ret' = [kind |-> "paths",
                   written |-> written_daily_path("dataset1", key[1], key[2], key[3],
                                                  key[4]),
                   read |-> read_daily_path("dataset1", key[1], key[2], key[3], key[4])]
        /\ UNCHANGED << training, downloader, config, rng, all_forecast_IDs, missing_dates, variable_paths,
                        num_input_channels_dict, tot_num_channels, polarhole1_mask,
                        polarhole2_mask, nopolarhole_mask, thinned_IDs, twin_rng,
                        twin_IDs, calls >>

\* the metadata files written by the preprocessor and those the loader reads
\* for one forecast start date
meta_file_round_trip ==
    /\ op.name = "__init__"
    /\ \E hemisphere \in Hemispheres, d \in PathDates :
        /\ op' = [name |-> "meta_file", hemisphere |-> hemisphere,
                  forecast_start_date |-> d]
        /\ ret' = [kind |-> "paths",
                   written |-> written_circday_paths("dataset1", hemisphere)
                                   \cup {written_land_path("dataset1", hemisphere)},
                   read |-> [cos |-> read_circday_path("dataset1", hemisphere, "cos", d),
                             sin |-> read_circday_path("dataset1", hemisphere, "sin", d),
                             land |-> read_land_path("dataset1", hemisphere)]]
        /\ UNCHANGED << training, downloader, config, rng, all_forecast_IDs, missing_dates, variable_paths,
                        num_input_channels_dict, tot_num_channels, polarhole1_mask,
                        polarhole2_mask, nopolarhole_mask, thinned_IDs, twin_rng,
                        twin_IDs, calls >>

\* -------------------------------------------------------------- grid shapes
\* A shaped grid is [shape |-> <<rows, cols>>, cells |-> the (row, col)
\* positions that hold True].
nopolarhole_mask_shape == << 432, 432 >>
ShapeSizes == {2, 4, 432}
RawDataShapes == ShapeSizes \X ShapeSizes
LandOceanCells == SUBSET {<<1, 1>>, <<1, 2>>, <<2, 1>>}

\* np.full(shape, False)
np_full_false(shape) == [shape |-> shape, cells |-> {}]

\* array[mask] = False with a boolean mask: the shapes must agree
assign_false_at(array, mask) ==
    IF mask.shape # array.shape
    THEN [status |-> "IndexError", array |-> array]
    ELSE [status |-> "ok",
          array |-> [shape |-> array.shape, cells |-> array.cells \ mask.cells]]

\* the dates whose polar hole is self.nopolarhole_mask
NoPolarHoleIDs ==
    { id \in Hemispheres \X ((MaxLag + 1)..(polarhole2_final_date + MaxLag + 2)) :
        determine_polar_hole_mask(id[1], id[2]).epoch = "none" }

\* determine_active_grid_cell_mask on a land/ocean grid of shape
\* raw_data_shape, for a date without polar hole
determine_active_grid_cell_mask_shaped ==
    /\ op.name = "__init__"
    /\ \E raw_data_shape \in RawDataShapes, cells \in LandOceanCells,
          id \in NoPolarHoleIDs :
        LET output_active_grid_cell_mask == [shape |-> raw_data_shape, cells |-> cells]
            polarhole_mask == np_full_false(nopolarhole_mask_shape)
            result == assign_false_at(output_active_grid_cell_mask, polarhole_mask)
        IN /\ op' = [name |-> "determine_active_grid_cell_mask",
                     raw_data_shape |-> raw_data_shape, hemisphere |-> id[1],
                     forecast_date |-> id[2],
                     land_ocean |-> output_active_grid_cell_mask,
                     polarhole_mask |-> polarhole_mask]
           /\ ret' = [kind |-> "mask", status |-> result.status, mask |-> result.array]
           /\ UNCHANGED << training, downloader, config, rng, all_forecast_IDs, missing_dates, variable_paths,
                           num_input_channels_dict, tot_num_channels, polarhole1_mask,
                           polarhole2_mask, nopolarhole_mask, thinned_IDs, twin_rng,
                           twin_IDs, calls >>

\* --------------------------------------------------------- new input data
\* the input_data a caller may put in the configuration before the reset
ResetInputDataChoices ==
    { [InputData(TRUE, l, n, 1, t) EXCEPT ![3].include = ci] :
        l \in 1..MaxLag, n \in BOOLEAN, t \in BOOLEAN, ci \in BOOLEAN }

\* variant: the total channel count is left as it was
reset_data_loader_with_new_input_data_stale_total ==
    /\ calls < MaxCalls
    /\ \E input_data \in ResetInputDataChoices :
        LET cfg == [config EXCEPT !.input_data = input_data]
            dict == set_number_of_input_channels_for_each_input_variable(cfg)
        IN /\ input_data # config.input_data
           /\ config' = cfg
           /\ variable_paths' = set_variable_path_formats(cfg)
           /\ num_input_channels_dict' = dict
           /\ tot_num_channels' = tot_num_channels
    /\ calls' = calls + 1
    /\ op' = [name |-> "reset_data_loader_with_new_input_data"]
    /\ ret' = [kind |-> "none"]
    /\ UNCHANGED << training, downloader, rng, all_forecast_IDs, missing_dates, polarhole1_mask, polarhole2_mask,
                    nopolarhole_mask, thinned_IDs, twin_rng, twin_IDs >>

\* config['input_data'] is replaced and reset_data_loader_with_new_input_data
\* is called: the paths, the channel counts and their total are set up anew
reset_data_loader_with_new_input_data ==
    /\ calls < MaxCalls
    /\ \E input_data \in ResetInputDataChoices :
        LET cfg == [config EXCEPT !.input_data = input_data]
            dict == set_number_of_input_channels_for_each_input_variable(cfg)
        IN /\ input_data # config.input_data
           /\ config' = cfg
           /\ variable_paths' = set_variable_path_formats(cfg)
           /\ num_input_channels_dict' = dict
           /\ tot_num_channels' = determine_tot_num_channels(dict)
    /\ calls' = calls + 1
    /\ op' = [name |-> "reset_data_loader_with_new_input_data"]
    /\ ret' = [kind |-> "none"]
    /\ UNCHANGED << training, downloader, rng, all_forecast_IDs, missing_dates, polarhole1_mask, polarhole2_mask,
                    nopolarhole_mask, thinned_IDs, twin_rng, twin_IDs >>

\* ---------------------------------------------------------------- callbacks
\* IceNetPreTrainingEvaluator and BatchwiseModelCheckpoint in the callback
\* list of a training loop.  A metric is a number of 0..MaxMetric; the two
\* infinities lie outside that range.  logs is the dict of the batch, shared
\* by the callbacks: a function from metric names to values.
MaxMetric == 1
MaxFrequency == 2
MaxTrainBatch == 3
Metrics == 0..MaxMetric
Inf == MaxMetric + 1
NegInf == 0 - 1
Frequencies == 1..MaxFrequency

\* BatchwiseModelCheckpoint.__init__: self.best
initial_best(mode, prev_best) ==
    IF prev_best # None THEN Val(prev_best)
    ELSE IF mode = "max" THEN NegInf ELSE Inf

\* variant: the evaluator runs on the batches divisible by the frequency
evaluator_runs_at_multiples(batch, validation_frequency, sample_at_zero) ==
    (batch = 0 /\ sample_at_zero) \/ batch % validation_frequency = 0

\* (batch == 0 and self.sample_at_zero) or (batch + 1) % self.validation_frequency == 0
evaluator_runs(batch, validation_frequency, sample_at_zero) ==
    (batch = 0 /\ sample_at_zero) \/ (batch + 1) % validation_frequency = 0

\* (batch == 0 and self.sample_at_zero) or (batch + 1) % self.save_frequency == 0
checkpoint_runs(batch, save_frequency, sample_at_zero) ==
    (batch = 0 /\ sample_at_zero) \/ (batch + 1) % save_frequency = 0

\* variant: a value equal to the best is saved too
save_or_equal(mode, value, best) ==
    IF mode = "max" /\ value >= best THEN TRUE
    ELSE IF mode = "min" /\ value <= best THEN TRUE
    ELSE FALSE

\* the branches that set `save`
save(mode, value, best) ==
    IF mode = "max" /\ value > best THEN TRUE
    ELSE IF mode = "min" /\ value < best THEN TRUE
    ELSE FALSE

\* the training loop as Model.fit starts it: the two callbacks as constructed,
\* in the order of the callback list, no batch trained yet
TrainingStarts ==
    { [stage |-> "fit", callbacks |-> list, validation_frequency |-> vf,
       evaluator_sample_at_zero |-> ez, save_frequency |-> sf, mode |-> mode,
       monitor |-> monitor, prev_best |-> pb, checkpoint_sample_at_zero |-> cz,
       best |-> initial_best(mode, pb), batch |-> 0 - 1, pos |-> 2, logs |-> <<>>,
       evaluated |-> {}, saves |-> <<>>, error |-> "none"] :
        list \in {<<"evaluator", "checkpoint">>, <<"checkpoint", "evaluator">>},
        vf \in Frequencies, sf \in Frequencies, ez \in BOOLEAN, cz \in BOOLEAN,
        mode \in {"max", "min"}, monitor \in {"loss", "val_loss"},
        pb \in {None, Some(MaxMetric)} }

LoaderIdle ==
    UNCHANGED << config, rng, all_forecast_IDs, missing_dates, variable_paths,
                 num_input_channels_dict, tot_num_channels, polarhole1_mask,
                 polarhole2_mask, nopolarhole_mask, thinned_IDs, twin_rng, twin_IDs,
                 calls, ret >>

\* the loop trains one batch and starts the callbacks with the batch's logs
train_step ==
    /\ training.stage = "fit" /\ training.error = "none"
    /\ training.pos = Len(training.callbacks)
    /\ training.batch + 1 < MaxTrainBatch
    /\ \E loss \in Metrics :
          training' = [training EXCEPT !.batch = @ + 1, !.pos = 0,
                                       !.logs = ("loss" :> loss)]
    /\ op' = [name |-> "train_step"]
    /\ LoaderIdle
    /\ UNCHANGED downloader

\* IceNetPreTrainingEvaluator.on_train_batch_end(batch, logs)
evaluator_on_train_batch_end ==
    /\ training.stage = "fit" /\ training.error = "none"
    /\ training.pos < Len(training.callbacks)
    /\ training.callbacks[training.pos + 1] = "evaluator"
    /\ IF evaluator_runs(training.batch, training.validation_frequency,
                         training.evaluator_sample_at_zero)
       THEN \E val \in Metrics :
               training' = [training EXCEPT !.pos = @ + 1,
                                            !.logs = ("val_loss" :> val) @@ @,
                                            !.evaluated = @ \cup {training.batch}]
       ELSE training' = [training EXCEPT !.pos = @ + 1]
    /\ op' = [name |-> "IceNetPreTrainingEvaluator.on_train_batch_end"]
    /\ LoaderIdle
    /\ UNCHANGED downloader

\* BatchwiseModelCheckpoint.on_train_batch_end(batch, logs)
checkpoint_on_train_batch_end ==
    /\ training.stage = "fit" /\ training.error = "none"
    /\ training.pos < Len(training.callbacks)
    /\ training.callbacks[training.pos + 1] = "checkpoint"
    /\ IF checkpoint_runs(training.batch, training.save_frequency,
                          training.checkpoint_sample_at_zero)
       THEN IF training.monitor \notin DOMAIN training.logs
            THEN training' = [training EXCEPT !.error = "KeyError"]
            ELSE IF save(training.mode, training.logs[training.monitor], training.best)
            THEN training' =
                    [training EXCEPT !.pos = @ + 1,
                                     !.best = training.logs[training.monitor],
                                     !.saves = Append(@, [batch |-> training.batch,
                                                          value |-> training.logs[
                                                                        training.monitor]])]
            ELSE training' = [training EXCEPT !.pos = @ + 1]
       ELSE training' = [training EXCEPT !.pos = @ + 1]
    /\ op' = [name |-> "BatchwiseModelCheckpoint.on_train_batch_end"]
    /\ LoaderIdle
    /\ UNCHANGED downloader

\* --------------------------------------------------------------- downloader
\* CMIP6Downloader.  The three first nodes of ESGF_NODES stand for the list;
\* the catalogue is the set of (experiment, node) pairs for which esgf_search
\* returns a non-empty result, and a result is named by its pair.  A variable
\* stands for its output path.
MaxDownloadCalls == 3
ESGF_NODES == << "esgf-data3.ceda.ac.uk", "esg1.umr-cnrm.fr", "vesg.ipsl.upmc.fr" >>
experiments == << "historical", "ssp245" >>
DownloadVars == {"siconca", "tas"}
Catalogues == SUBSET (Range(experiments) \X Range(ESGF_NODES))

\* variant: the nodes after a hit are queried too
RECURSIVE node_loop_without_break(_, _, _)
node_loop_without_break(catalogue, experiment_id, k) ==
    IF k > Len(ESGF_NODES) THEN [queried |-> <<>>, results |-> <<>>]
    ELSE LET query == <<experiment_id, ESGF_NODES[k]>>
             rest == node_loop_without_break(catalogue, experiment_id, k + 1)
         IN [queried |-> <<query>> \o rest.queried,
             results |-> (IF query \in catalogue THEN <<query>> ELSE <<>>)
                             \o rest.results]

\* for data_node in self._nodes: query, and break at the first result
RECURSIVE node_loop(_, _, _)
node_loop(catalogue, experiment_id, k) ==
    IF k > Len(ESGF_NODES) THEN [queried |-> <<>>, results |-> <<>>]
    ELSE LET query == <<experiment_id, ESGF_NODES[k]>>
         IN IF query \in catalogue
            THEN [queried |-> <<query>>, results |-> <<query>>]
            ELSE LET rest == node_loop(catalogue, experiment_id, k + 1)
                 IN [queried |-> <<query>> \o rest.queried, results |-> rest.results]

\* for experiment_id in self._experiments
RECURSIVE experiment_loop(_, _)
experiment_loop(catalogue, e) ==
    IF e > Len(experiments) THEN [queried |-> <<>>, results |-> <<>>]
    ELSE LET first == node_loop(catalogue, experiments[e], 1)
             rest == experiment_loop(catalogue, e + 1)
         IN [queried |-> first.queried \o rest.queried,
             results |-> first.results \o rest.results]

\* the downloader as constructed, with the files and the catalogue it meets
DownloaderStarts ==
    { [stage |-> "made", catalogue |-> c, output_exists |-> o, proc_exists |-> {},
       files_downloaded |-> <<>>, queried |-> <<>>, results |-> <<>>,
       status |-> "none", calls |-> 0] :
        c \in Catalogues, o \in SUBSET DownloadVars }

DownloaderFrame ==
    UNCHANGED << config, rng, all_forecast_IDs, missing_dates, variable_paths,
                 num_input_channels_dict, tot_num_channels, polarhole1_mask,
                 polarhole2_mask, nopolarhole_mask, thinned_IDs, twin_rng, twin_IDs,
                 calls, ret, training >>

\* _single_download(var_prefix, pressure, req_date)
single_download ==
    /\ downloader.stage = "made"
    /\ downloader.calls < MaxDownloadCalls
    /\ \E var_prefix \in DownloadVars :
        LET output_existed == var_prefix \in downloader.output_exists
            proc_existed == var_prefix \in downloader.proc_exists
            found == experiment_loop(downloader.catalogue, 1)
        IN /\ op' = [name |-> "_single_download", var_prefix |-> var_prefix,
                     output_existed |-> output_existed, proc_existed |-> proc_existed]
           /\ IF ~output_existed \/ proc_existed
              THEN IF found.results = <<>>
                   THEN \* xr.open_mfdataset of no file raises
                        downloader' = [downloader EXCEPT !.queried = found.queried,
                                                         !.results = found.results,
                                                         !.status = "OSError",
                                                         !.calls = @ + 1]
                   ELSE downloader' =
                           [downloader EXCEPT !.queried = found.queried,
                                              !.results = found.results,
                                              !.status = "downloaded",
                                              !.output_exists = @ \cup {var_prefix},
                                              !.files_downloaded = Append(@, var_prefix),
                                              !.calls = @ + 1]
              ELSE downloader' =
                      [downloader EXCEPT !.queried = <<>>, !.results = <<>>,
                                         !.status = "exists",
                                         !.files_downloaded =
                                             IF var_prefix \in Range(@) THEN @
                                             ELSE Append(@, var_prefix),
                                         !.calls = @ + 1]
    /\ DownloaderFrame

\* the regridding step, outside the downloader, leaves a processed file
processed_file_appears ==
    /\ downloader.stage = "made"
    /\ \E var \in downloader.output_exists \ downloader.proc_exists :
          downloader' = [downloader EXCEPT !.proc_exists = @ \cup {var}]
    /\ UNCHANGED op
    /\ DownloaderFrame

\* =================================================================== claims
\* the dates the claims range over
ModelDates == 0..15

BatchOk == ret.kind = "batch" /\ ret.status = "ok"

\* the larger of the SIC abs and anom lag depths when both are enabled, the
\* single enabled depth otherwise
ClaimMaxLag ==
    LET abs == SicRepresentation(config, "abs")
        anom == SicRepresentation(config, "anom")
    IN IF abs.include /\ anom.include
       THEN (IF abs.max_lag >= anom.max_lag THEN abs.max_lag ELSE anom.max_lag)
       ELSE IF abs.include THEN abs.max_lag ELSE anom.max_lag

\* no date of the lag window start-1 .. start-max_lag is missing
CleanWindow(id) ==
    \A j \in 1..ClaimMaxLag : (id[2] - j) \notin missing_dates[id[1]]

\* the channels of one representation, in tensor order
RepChannels(X, varname, fmt) ==
    SelectSeq(X, LAMBDA ch : ch.array.var = varname /\ ch.array.fmt = fmt)

\* C1: every SIC abs/anom input date that data_generation loads for a sample of
\* the index is absent from the missing dates of the sample's hemisphere.
C1_LoadedSicInputsNotMissing ==
    BatchOk =>
        \A s \in 1..Len(ret.IDs) : \A c \in 1..Len(ret.X[s]) :
            (ret.X[s][c].array.var = "siconca" /\ ret.X[s][c].array.fmt \in {"abs", "anom"})
                => ret.X[s][c].array.key[1] \notin missing_dates[ret.IDs[s][1]]

\* C2: after the exclusion pass the index holds only candidates that survived
\* thinning, and such a candidate is in the index iff none of start-1 ..
\* start-max_lag is missing in its hemisphere (a missing target never excludes).
C2_IndexIffNoMissingInput ==
    /\ Range(all_forecast_IDs) \subseteq Range(thinned_IDs)
    /\ \A k \in 1..Len(thinned_IDs) :
          (thinned_IDs[k] \in Range(all_forecast_IDs)) <=> CleanWindow(thinned_IDs[k])

\* C2 witness: one candidate was excluded and a kept one has a missing target
C2_Witness ==
    /\ \E k \in 1..Len(thinned_IDs) : thinned_IDs[k] \notin Range(all_forecast_IDs)
    /\ \E i \in 1..Len(all_forecast_IDs) :
          \E l \in 0..(config.n_forecast_days - 1) :
              (all_forecast_IDs[i][2] + l) \in missing_dates[all_forecast_IDs[i][1]]

\* C3: the j-th channel of every included lagged representation holds the
\* artifact dated forecast start minus j days.
C3_ChannelJHoldsStartMinusJ ==
    BatchOk =>
        \A s \in 1..Len(ret.IDs) : \A fmt \in {"abs", "anom"} :
            LET chs == RepChannels(ret.X[s], "siconca", fmt)
            IN \A j \in 1..Len(chs) : chs[j].array.key = << ret.IDs[s][2] - j >>

\* the epoch of a date, by the two boundaries
EpochOfDate(hemisphere, d) ==
    IF hemisphere = "sh" THEN "none"
    ELSE IF d <= polarhole1_final_date THEN "polarhole1"
    ELSE IF d <= polarhole2_final_date THEN "polarhole2"
    ELSE "none"

\* C4: for every sample and lead the polar hole removed from the weight is the
\* one of the epoch of forecast start minus max_lag, whatever the lead.
C4_PolarHoleFromOldestInput ==
    BatchOk =>
        \A s \in 1..Len(ret.IDs) : \A l \in 0..(config.n_forecast_days - 1) :
            ret.polarhole[s][l] # "unused"
                => ret.polarhole[s][l]
                     = EpochOfDate(ret.IDs[s][1], ret.IDs[s][2] - ClaimMaxLag)

\* C5: a target date in the missing dates of the sample's hemisphere has weight
\* zero at every cell.
C5_MissingTargetZeroWeight ==
    BatchOk =>
        \A s \in 1..Len(ret.IDs) : \A l \in 0..(config.n_forecast_days - 1) :
            (ret.IDs[s][2] + l) \in missing_dates[ret.IDs[s][1]]
                => \A c \in Cells : ret.y1[s][l][c] = Zero

\* C5 witness: a batch with a missing target whose artifact exists on disk,
\* with the month reweighting on and a non-empty land/ocean mask
C5_Witness ==
    /\ BatchOk
    /\ config.loss_weight_months
    /\ \E s \in 1..Len(ret.IDs) : \E l \in 0..(config.n_forecast_days - 1) :
          /\ (ret.IDs[s][2] + l) \in missing_dates[ret.IDs[s][1]]
          /\ ret.y0[s][l].value = "artifact"
          /\ active_grid_cell_mask_file(ret.IDs[s][1], Month(ret.IDs[s][2] + l)) # {}

\* C6: the polar-hole mask is all-false in the southern hemisphere; in the
\* northern one, with d the oldest SIC input date of the date given, it is the
\* epoch-1 mask when d <= E1, the epoch-2 mask when E1 < d <= E2, else all-false.
C6_PolarHoleMaskByEpoch ==
    \A hemisphere \in Hemispheres : \A f \in ModelDates :
        LET d == f - ClaimMaxLag
            got == determine_polar_hole_mask(hemisphere, f).mask
        IN IF hemisphere = "sh" THEN got = {}
           ELSE /\ d <= polarhole1_final_date => got = polarhole1_file
                /\ (polarhole1_final_date < d /\ d <= polarhole2_final_date)
                       => got = polarhole2_file
                /\ d > polarhole2_final_date => got = {}

\* C6 witness: one northern batch used the epoch-1 and the epoch-2 mask, and
\* the three grids differ
C6_Witness ==
    /\ BatchOk
    /\ polarhole1_mask # polarhole2_mask /\ polarhole1_mask # {} /\ polarhole2_mask # {}
    /\ \E s \in 1..Len(ret.IDs) : \E l \in 0..(config.n_forecast_days - 1) :
          ret.IDs[s][1] = "nh" /\ ret.polarhole[s][l] = "polarhole1"
    /\ \E s \in 1..Len(ret.IDs) : \E l \in 0..(config.n_forecast_days - 1) :
          ret.IDs[s][1] = "nh" /\ ret.polarhole[s][l] = "polarhole2"

\* the cells with a nonzero weight
Weighted(w) == {c \in Cells : w[c] # Zero}

\* C7: every cell of the composed validity mask is a cell of the land/ocean
\* mask of the date's month, and so is every weighted cell of a batch.
C7_ComposedWithinLandOcean ==
    /\ \A hemisphere \in Hemispheres : \A d \in ModelDates :
          determine_active_grid_cell_mask(hemisphere, d).mask
              \subseteq active_grid_cell_mask_file(hemisphere, Month(d))
    /\ BatchOk =>
          \A s \in 1..Len(ret.IDs) : \A l \in 0..(config.n_forecast_days - 1) :
              \/ \A c \in Cells : ret.y1[s][l][c] = NaN
              \/ Weighted(ret.y1[s][l])
                    \subseteq active_grid_cell_mask_file(ret.IDs[s][1],
                                                         Month(ret.IDs[s][2] + l))

\* C7 witness: a weight from which the polar hole removed a land/ocean cell
\* while the hole also covers a cell outside the land/ocean mask
C7_Witness ==
    /\ BatchOk
    /\ \E s \in 1..Len(ret.IDs) : \E l \in 0..(config.n_forecast_days - 1) :
          LET file == active_grid_cell_mask_file(ret.IDs[s][1], Month(ret.IDs[s][2] + l))
          IN /\ ret.polarhole[s][l] = "polarhole1"
             /\ polarhole1_mask \cap file # {}
             /\ polarhole1_mask \ file # {}
             /\ Weighted(ret.y1[s][l]) # {}
             /\ Weighted(ret.y1[s][l]) # file

\* the number of batches the claim states: the least L with L * B >= N
ClaimLength(N, B) == CHOOSE L \in 0..N : L * B >= N /\ \A K \in 0..N : K * B >= N => L <= K

\* C8: length() is ceil(N / B); batch i takes exactly the positions
\* [i*B, min((i+1)*B, N)) and is not empty; the batches hold every identifier
\* of the built index exactly once; the last batch has N mod B samples when
\* that is nonzero, else B.
C8_BatchesPartitionIndex ==
    LET N == Len(all_forecast_IDs)
        B == config.batch_size
        L == ClaimLength(N, B)
        Positions(i) == Range(sample_idxs(i))
    IN /\ B >= 1
       /\ ret.kind = "len" => ret.value = L
       /\ op.name = "__getitem__" =>
             /\ op.batch_idx \in 0..(L - 1)
             /\ op.sample_idxs = sample_idxs(op.batch_idx)
             /\ ret.IDs = [k \in 1..Len(op.sample_idxs) |->
                              all_forecast_IDs[op.sample_idxs[k] + 1]]
       /\ \A i \in 0..(L - 1) :
             /\ Positions(i) = {q \in 0..(N - 1) : i * B <= q /\ q < (i + 1) * B}
             /\ Positions(i) # {}
             /\ Len(sample_idxs(i)) = Cardinality(Positions(i))
       /\ \A q \in 0..(N - 1) :
             Cardinality({i \in 0..(L - 1) : q \in Positions(i)}) = 1
       /\ Cardinality(Range(all_forecast_IDs)) = N
       /\ Range(all_forecast_IDs) = {id \in Range(thinned_IDs) : CleanWindow(id)}
       /\ L >= 1 => Len(sample_idxs(L - 1)) = (IF N % B # 0 THEN N % B ELSE B)

\* C8 witness: after a reshuffle or a rebuild, the last batch was served and
\* is shorter than the batch size
C8_Witness ==
    /\ calls >= 1
    /\ op.name = "__getitem__"
    /\ op.batch_idx = NumBatches(all_forecast_IDs, config) - 1
    /\ op.batch_idx >= 1
    /\ Len(ret.IDs) < config.batch_size

\* C9: a second loader built with the same seed, configuration and missing
\* dates and driven by the same operations holds the same sample order and
\* generator state, after construction and after every operation.
C9_SeedDeterminism ==
    /\ all_forecast_IDs = twin_IDs
    /\ rng = twin_rng

\* C9 witness: the second reshuffle of the train index, which changed the order
C9_Witness ==
    /\ op.name = "on_epoch_end"
    /\ calls = 2
    /\ Len(thinned_IDs) = 6
    /\ Len(all_forecast_IDs) >= 3
    /\ all_forecast_IDs # remove_missing_dates(config, missing_dates, thinned_IDs)

IsPermutation(a, b) ==
    Len(a) = Len(b) /\ \A x \in Range(a) \cup Range(b) :
        Cardinality({i \in 1..Len(a) : a[i] = x}) = Cardinality({i \in 1..Len(b) : b[i] = x})

\* C10: __len__, __getitem__ and data_generation leave the sample list, the
\* generator, the missing dates, the polar-hole masks and the channel
\* bookkeeping unchanged; on_epoch_end permutes the sample list, advances the
\* generator and changes nothing else.
C10_Frame ==
    [][ /\ op'.name \in {"__len__", "__getitem__"} =>
              UNCHANGED << training, downloader, config, rng, all_forecast_IDs, missing_dates, variable_paths,
                           num_input_channels_dict, tot_num_channels, polarhole1_mask,
                           polarhole2_mask, nopolarhole_mask >>
        /\ op'.name = "on_epoch_end" =>
              /\ IsPermutation(all_forecast_IDs, all_forecast_IDs')
              /\ UNCHANGED << training, downloader, config, missing_dates, variable_paths,
                              num_input_channels_dict, tot_num_channels, polarhole1_mask,
                              polarhole2_mask, nopolarhole_mask >>
      ]_vars

\* C10 witness: a batch assembled after a reshuffle that changed the order
C10_Witness ==
    /\ BatchOk
    /\ calls >= 1
    /\ Len(thinned_IDs) = 6
    /\ all_forecast_IDs # remove_missing_dates(config, missing_dates, thinned_IDs)
    /\ \E s \in 1..Len(ret.IDs) : \E l \in 0..(config.n_forecast_days - 1) :
          ret.polarhole[s][l] = "polarhole1"

\* the operation that rebuilds the index for a split
ConvertName(dataset) ==
    IF dataset = "val" THEN "convert_to_validation_data_loader"
    ELSE "convert_to_test_data_loader"

\* the identifier's date lies within the split's bounds of its hemisphere
InSplit(id, dataset) ==
    \E k \in 1..Len(config.sample_IDs) :
        LET entry == config.sample_IDs[k]
            ends == SplitBounds(entry, dataset)
        IN /\ entry.hemisphere = id[1]
           /\ ends # None
           /\ Val(ends)[1] <= id[2] /\ id[2] <= Val(ends)[2]

\* C11: rebuilding the index for the validation or test split replaces it:
\* afterwards every identifier starts within that split's bounds for its
\* hemisphere and has no missing date in its lag window, and an identifier of
\* the previous index remains only if it lies within the new split's bounds.
C11_RebuildReplacesIndex ==
    [][ \A dataset \in {"val", "test"} :
          op'.name = ConvertName(dataset) =>
              /\ \A id \in Range(all_forecast_IDs') :
                     InSplit(id, dataset) /\ CleanWindow(id)
              /\ \A id \in Range(all_forecast_IDs) :
                     id \in Range(all_forecast_IDs') => InSplit(id, dataset)
      ]_vars

\* C11 witness: the test index built as the second rebuild, holding an
\* identifier that lies in the validation split too
C11_Witness ==
    /\ op.name = "convert_to_test_data_loader"
    /\ calls = 2
    /\ Len(all_forecast_IDs) >= 2
    /\ \E id \in Range(all_forecast_IDs) : InSplit(id, "val") /\ InSplit(id, "test")

\* the product of the denominators of the weights of cells 1..c
RECURSIVE DenProduct(_, _)
DenProduct(w, c) == IF c = 0 THEN 1 ELSE w[c][2] * DenProduct(w, c - 1)

\* the sum of the weights of cells 1..c, as a numerator over denominator D
RECURSIVE NumSum(_, _, _)
NumSum(w, c, D) ==
    IF c = 0 THEN 0 ELSE w[c][1] * (D \div w[c][2]) + NumSum(w, c - 1, D)

\* the weights are numbers and add up to n
WeightsSumTo(w, n) ==
    /\ \A c \in Cells : w[c][2] # 0
    /\ LET D == DenProduct(w, NumCells)
       IN NumSum(w, NumCells, D) = n * D

\* C15: for a target date that is not missing, the weight is nonzero exactly
\* on the cells of the composed validity mask; with loss_weight_months off
\* each of these cells has weight 1, with it on the weights of the (sample,
\* lead) add up to the normalization constant.
C15_WeightOnComposedMask ==
    BatchOk =>
        \A s \in 1..Len(ret.IDs) : \A l \in 0..(config.n_forecast_days - 1) :
            LET hemisphere == ret.IDs[s][1]
                forecast_target_date == ret.IDs[s][2] + l
                composed == determine_active_grid_cell_mask(hemisphere,
                                                            forecast_target_date).mask
                w == ret.y1[s][l]
            IN forecast_target_date \notin missing_dates[hemisphere] =>
                  /\ Weighted(w) = composed
                  /\ ~config.loss_weight_months => \A c \in composed : w[c] = One
                  /\ config.loss_weight_months => WeightsSumTo(w, loss_weight_norm)

\* C16: for every sample and lead, target channel 0 is the siconca/abs
\* artifact of the target date when that file exists and NaN everywhere when it
\* does not, and the batch is assembled without error in both cases (an absent
\* input file aside).
C16_TargetGapsNotErrors ==
    op.name = "__getitem__" =>
        /\ ret.status \in {"ok", "FileNotFoundError"}
        /\ ret.status = "ok" =>
              \A s \in 1..Len(ret.IDs) : \A l \in 0..(config.n_forecast_days - 1) :
                  ret.y0[s][l].value = (IF ret.y0[s][l].exists THEN "artifact" ELSE "nan")

\* ------------------------------------------------ the batch assembler alone
\* configurations that also differ in whether land and circday are included
MetaInputData(input_data, landInc, circdayInc) ==
    [input_data EXCEPT ![2].include = landInc, ![3].include = circdayInc]

AssembleConfigs ==
    { [FixedConfig EXCEPT !.input_data = MetaInputData(i, la, ci), !.batch_size = b] :
        i \in InputDataChoices, la \in BOOLEAN, ci \in BOOLEAN, b \in 1..MaxBatch }

InitAssemble ==
    \E cfg \in AssembleConfigs, csv \in MissingCsvChoices :
        Constructs(cfg, Some(1), csv)

NextAssemble == getitem_files

SpecAssemble == InitAssemble /\ [][NextAssemble]_vars

\* C17: a batch is returned only if every input file it needs was on disk: no
\* channel of a returned tensor stands for an absent file or is left as the
\* initial zeros; when a file is absent the call fails for the whole batch
\* and returns no tensor.
C17_AbsentInputFails ==
    op.name = "__getitem__" =>
        /\ ret.status = "ok" =>
              \A s \in 1..Len(ret.IDs) : \A c \in 1..Len(ret.X[s]) :
                  ret.X[s][c].exists /\ ret.X[s][c].array.var # "zeros"
        /\ ret.status # "ok" => DOMAIN ret = {"kind", "status", "IDs"}

\* C17 witness: a batch of two samples failed on an absent input file
C17_Witness ==
    /\ op.name = "__getitem__"
    /\ ret.status = "FileNotFoundError"
    /\ Len(ret.IDs) = 2

\* the channel count as the claim states it
ClaimTotal ==
    LET v == config.input_data
        PerVariable(k) ==
            IF ~v[k].metadata
            THEN SeqSum([j \in 1..Len(v[k].formats) |->
                           IF ~v[k].formats[j].include THEN 0
                           ELSE IF v[k].formats[j].data_format = "linear_trend"
                                THEN config.n_forecast_days
                                ELSE v[k].formats[j].max_lag], 1)
            ELSE IF ~v[k].include THEN 0
            ELSE IF v[k].varname = "land" THEN 1
            ELSE IF v[k].varname = "circday" THEN 2 ELSE 0
    IN SeqSum([k \in 1..Len(v) |-> PerVariable(k)], 1)

\* the channel holds what the name says
Named(ch, name) ==
    IF Len(name) = 3 THEN ch.array.var = name[1] /\ ch.array.fmt = name[2]
    ELSE IF name = <<"land">> THEN ch.array.var = "land"
    ELSE IF name = <<"cos(day)">> THEN ch.array.var = "circday" /\ ch.array.fmt = "cos"
    ELSE ch.array.var = "circday" /\ ch.array.fmt = "sin"

\* C18: the total channel count is the sum over the included representations
\* of the lag depth (the horizon for linear_trend), plus 1 for land and 2 for
\* the day encoding when included; it is the number of names of
\* determine_variable_names; and a batch writes every channel 0..total-1
\* once, in insertion order.
C18_ChannelBookkeeping ==
    LET names == determine_variable_names(config)
    IN /\ tot_num_channels = ClaimTotal
       /\ Len(names) = tot_num_channels
       /\ BatchOk =>
             \A s \in 1..Len(ret.IDs) :
                 /\ Len(ret.X[s]) = tot_num_channels
                 /\ \A c \in 1..Len(ret.X[s]) :
                       /\ ret.X[s][c].array.var # "zeros"
                       /\ Named(ret.X[s][c], names[c])

\* C18 witness: a batch with the three representations, land and the day
\* encoding in its channels
C18_Witness ==
    /\ BatchOk
    /\ tot_num_channels >= 7
    /\ \A k \in {"abs", "anom", "linear_trend"} : SicRepresentation(config, k).include
    /\ config.input_data[2].include /\ config.input_data[3].include
    /\ ret.X[1][tot_num_channels].array.fmt = "sin"

\* ------------------------------------------------- the normalisation alone
InitNorm ==
    \E csv \in MissingCsvChoices :
        csv["nh"] = << <<2, 2>> >> /\ Constructs(FixedConfig, Some(1), csv)

NextNorm == normalise_array_using_all_training_data

SpecNorm == InitNorm /\ [][NextNorm]_vars

Normalising == op.name = "normalise_array_using_all_training_data"

\* no statistic was passed by the caller
NoOverrides == op.mean = None /\ op.std = None /\ op.min = None /\ op.max = None

\* C19: two arrays with the same values on every training date get the same
\* statistics from the normalisation called without overrides, whatever they
\* hold outside the training window.
C19_StatisticsFromTrainingWindow ==
    (Normalising /\ NoOverrides
        /\ \A t \in op.obs_train_dates : op.da[t] = op.other[t])
    => /\ ret.out.first = ret.out_other.first
       /\ ret.out.second = ret.out_other.second

\* C19 witness: the two arrays differ outside the training window, one of
\* them holding a NaN there, and the statistics are numbers
C19_Witness ==
    /\ Normalising /\ NoOverrides /\ ~op.minmax
    /\ op.da[MaxTime] = NaNValue /\ op.other[MaxTime] = Some(MaxValue)
    /\ ret.out.first # NaN
    /\ ret.out.second[1] > 0

\* the numbers of the array on the training dates
ClaimTrainingValues == {t \in op.obs_train_dates : op.da[t] # NaNValue}

RECURSIVE SetSum(_, _)
SetSum(S, f) ==
    IF S = {} THEN 0
    ELSE LET t == CHOOSE x \in S : TRUE IN f[t] + SetSum(S \ {t}, f)

\* mean and squared standard deviation of the training values
ClaimMean ==
    LET T == ClaimTrainingValues
    IN IF T = {} THEN NaN
       ELSE << SetSum(T, [t \in T |-> Val(op.da[t])]), Cardinality(T) >>
ClaimStd ==
    LET T == ClaimTrainingValues
        n == Cardinality(T)
        sum == SetSum(T, [t \in T |-> Val(op.da[t])])
        sumsq == SetSum(T, [t \in T |-> Val(op.da[t]) * Val(op.da[t])])
    IN IF T = {} THEN NaN ELSE << n * sumsq - sum * sum, n * n >>
ClaimMin ==
    LET T == ClaimTrainingValues
    IN IF T = {} THEN NaNValue
       ELSE op.da[CHOOSE t \in T : \A u \in T : Val(op.da[t]) <= Val(op.da[u])]
ClaimMax ==
    LET T == ClaimTrainingValues
    IN IF T = {} THEN NaNValue
       ELSE op.da[CHOOSE t \in T : \A u \in T : Val(op.da[t]) >= Val(op.da[u])]

\* C20: a statistic passed by the caller is the one applied and returned; when
\* only one of the pair is passed the other is the training window's own; and
\* the pair returned is the pair applied to the array.
C20_OverridesUsedAndReturned ==
    Normalising =>
        LET out == ret.out
        IN IF ~op.minmax
           THEN /\ out.first = (IF op.mean # None THEN Val(op.mean) ELSE ClaimMean)
                /\ out.second = (IF op.std # None THEN Val(op.std) ELSE ClaimStd)
                /\ \A t \in Times :
                      out.new_da[t] = [x |-> op.da[t], sub |-> out.first, div |-> out.second]
           ELSE /\ out.first = (IF op.min # None THEN Val(op.min) ELSE ClaimMin)
                /\ out.second = (IF op.max # None THEN Val(op.max) ELSE ClaimMax)
                /\ \A t \in Times :
                      out.new_da[t] = [x |-> op.da[t], sub |-> out.first,
                                       div |-> Minus(out.second, out.first)]

\* C20 witness: the mean alone was passed, and it is not the training mean
C20_Witness ==
    /\ Normalising /\ ~op.minmax
    /\ op.mean # None /\ op.std = None
    /\ ClaimMean # NaN /\ ClaimMean # Val(op.mean)
    /\ ret.out.second[1] > 0
    /\ op.da[MaxTime] # NaNValue

\* ------------------------------------------------ the index builder alone
\* configurations that differ in which thin-factor keys are present and in
\* their values; one SIC representation, lag depth MaxLag
\* sample_IDs with a validation split of five days that overlaps the test split
wide_sample_IDs ==
    << [hemisphere |-> "nh", train |-> Some(<<4, 7>>), val |-> Some(<<8, 12>>),
        test |-> Some(<<10, 10>>)],
       [hemisphere |-> "sh", train |-> Some(<<5, 6>>), val |-> None,
        test |-> Some(<<10, 11>>)] >>

OptionalKey(key, choice) ==
    IF choice = <<"absent">> THEN [k \in {} |-> None] ELSE (key :> choice[2])

ThinConfigs ==
    { [input_data |-> InputData(TRUE, MaxLag, FALSE, 1, FALSE), n_forecast_days |-> 2,
       batch_size |-> 1, loss_weight_months |-> FALSE, default_seed |-> 1,
       sample_IDs |-> wide_sample_IDs]
        @@ OptionalKey("train_sample_thin_factor", tr)
        @@ OptionalKey("val_sample_thin_factor", va)
        @@ OptionalKey("test_sample_thin_factor", te) :
        tr \in { <<"absent">>, <<"present", None>>, <<"present", Some(2)>>,
                 <<"present", Some(4)>> },
        va \in { <<"absent">>, <<"present", Some(2)>>, <<"present", Some(3)>> },
        te \in { <<"absent">>, <<"present", Some(2)>> } }

ThinSeedArgs == { Some(1), Some(2), Some(3), Some(6) }

InitBuild ==
    \E cfg \in ThinConfigs, seedArg \in ThinSeedArgs, csv \in MissingCsvChoices :
        Constructs(cfg, seedArg, csv)

NextBuild ==
    \/ convert_to_validation_data_loader
    \/ convert_to_test_data_loader

SpecBuild == InitBuild /\ [][NextBuild]_vars

\* the split the index was built for, when the last operation built it
BuiltSplit ==
    IF op.name = "__init__" THEN Some("train")
    ELSE IF op.name = "convert_to_validation_data_loader" THEN Some("val")
    ELSE IF op.name = "convert_to_test_data_loader" THEN Some("test")
    ELSE None

\* the greatest q with q * t <= n
ClaimFloor(n, t) == CHOOSE q \in 0..n : q * t <= n /\ n < (q + 1) * t

\* C12: for the train and validation splits with a non-null thin factor t the
\* list after thinning has exactly floor(count / t) entries, all distinct and
\* all among the count enumerated candidates; for the test split, or with the
\* factor absent or null, the list is the candidates, unthinned.
C12_Thinning ==
    BuiltSplit # None =>
        LET dataset == Val(BuiltSplit)
            cand == CandidateIDs(config, dataset, 1)
            key == IF dataset = "train" THEN "train_sample_thin_factor"
                   ELSE "val_sample_thin_factor"
        IN IF dataset # "test" /\ key \in DOMAIN config /\ config[key] # None
           THEN /\ Len(thinned_IDs) = ClaimFloor(Len(cand), Val(config[key]))
                /\ Cardinality(Range(thinned_IDs)) = Len(thinned_IDs)
                /\ Range(thinned_IDs) \subseteq Range(cand)
           ELSE thinned_IDs = cand

\* C12 witness: the validation split of five candidates thinned by two
C12_Witness ==
    /\ op.name = "convert_to_validation_data_loader"
    /\ "val_sample_thin_factor" \in DOMAIN config
    /\ config.val_sample_thin_factor = Some(2)
    /\ Len(CandidateIDs(config, "val", 1)) = 5
    /\ Len(thinned_IDs) = 2
    /\ thinned_IDs # SubSeq(CandidateIDs(config, "val", 1), 1, 2)

\* the list holds, for each hemisphere with a non-null bound, one identifier
\* per day from start to end, end included, and nothing else
Enumerated(ids, dataset) ==
    /\ \A i \in 1..Len(ids) : ids[i][1] \in Hemispheres /\ ids[i][2] \in ModelDates
    /\ \A h \in Hemispheres : \A d \in ModelDates :
          Cardinality({i \in 1..Len(ids) : ids[i] = <<h, d>>})
              = (IF InSplit(<<h, d>>, dataset) THEN 1 ELSE 0)

CsvTimestamps ==
    { <<d, h, m, sec>> : d \in 1..MaxCsvDay, h \in 0..MaxSubDay, m \in 0..MaxSubDay,
                          sec \in 0..MaxSubDay }

CsvRows ==
    { [start |-> r[1], end |-> r[2]] :
        r \in {p \in CsvTimestamps \X CsvTimestamps : p[2][1] >= p[1][1]} }

\* load_missing_dates, which __init__ calls once, reading a northern file of
\* one row and an empty southern one
load_missing_datetimes ==
    /\ op.name = "__init__"
    /\ \E row \in CsvRows :
        /\ missing_dates' = [h \in Hemispheres |->
                                IF h = "nh" THEN missing_dates_of_row(row) ELSE {}]
        /\ op' = [name |-> "load_missing_dates", row |-> row]
        /\ ret' = [kind |-> "none"]
        /\ UNCHANGED << training, downloader, config, rng, all_forecast_IDs, variable_paths,
                        num_input_channels_dict, tot_num_channels, polarhole1_mask,
                        polarhole2_mask, nopolarhole_mask, thinned_IDs, twin_rng,
                        twin_IDs, calls >>

InitMissing ==
    \E csv \in MissingCsvChoices :
        csv["nh"] = << <<2, 2>> >> /\ Constructs(FixedConfig, Some(1), csv)

NextMissing == load_missing_datetimes

SpecMissing == InitMissing /\ [][NextMissing]_vars

\* C14: whatever sub-day components the interval timestamps carry, a calendar
\* day is matched as missing iff it lies between the interval's start day and
\* end day, both included, and every entry of the expanded set has all its
\* sub-day components zero.
C14_DayGranularRegistry ==
    op.name = "load_missing_dates" =>
        /\ \A d \in 0..(MaxCsvDay + 1) :
              is_missing(Midnight(d), missing_dates["nh"])
                  <=> (op.row.start[1] <= d /\ d <= op.row.end[1])
        /\ \A dt \in missing_dates["nh"] : dt = Midnight(dt[1])

\* ------------------------------------------------- the saving of a variable
NextSave == save_variable

SpecSave == InitNorm /\ [][NextSave]_vars

\* C21: after save_variable no daily file holds a non-finite value: every NaN,
\* +infinity and -infinity of the normalised array was replaced with zero.
C21_SavedFilesFinite ==
    op.name = "save_variable" => \A t \in Times : ret.files[t] = "finite"

\* ---------------------------------------------------------- the paths alone
NextPaths == daily_file_round_trip \/ meta_file_round_trip

SpecPaths == InitNorm /\ [][NextPaths]_vars

\* C22: the path at which the preprocessor writes the daily file of a key
\* (hemisphere, variable, representation, date) is the path the loader reads
\* for that key, no other key resolves to that path, and the cos and sin files
\* read for a forecast start's month and day are among the files written.
C22_PathRoundTrip ==
    /\ op.name = "daily_file" =>
          /\ ret.written = ret.read
          /\ \A other \in PathKeys :
                other # op.key =>
                    /\ read_daily_path("dataset1", other[1], other[2], other[3], other[4])
                           # ret.read
                    /\ written_daily_path("dataset1", other[1], other[2], other[3],
                                          other[4]) # ret.written
    /\ op.name = "meta_file" =>
          /\ ret.read.cos \in ret.written
          /\ ret.read.sin \in ret.written
          /\ ret.read.land \in ret.written
          /\ ret.read.cos # ret.read.sin
          /\ \A d \in PathDates :
                (Month(d) # Month(op.forecast_start_date)
                     \/ Day(d) # Day(op.forecast_start_date))
                    => read_circday_path("dataset1", op.hemisphere, "cos", d)
                           # ret.read.cos

\* C22 witness: a daily file of a single-digit month and day in the second
\* year was written and read
C22_Witness ==
    /\ op.name = "daily_file"
    /\ Year(op.key[4]) > 2012 /\ Month(op.key[4]) < 10 /\ Day(op.key[4]) < 10
    /\ ret.written = ret.read

\* ------------------------------------- configurations with another variable
\* input_data with one more metadata variable, which is neither land nor the
\* day encoding
ExtraInputData(input_data, extraInc) ==
    input_data \o << [varname |-> "extra", metadata |-> TRUE, include |-> extraInc,
                      formats |-> <<>>] >>

SetupConfigs ==
    { [FixedConfig EXCEPT !.input_data = ExtraInputData(i, e), !.batch_size = b] :
        i \in {InputData(TRUE, l, FALSE, 1, t) : l \in 1..MaxLag, t \in BOOLEAN},
        e \in BOOLEAN, b \in 1..MaxBatch }

InitSetup ==
    \E cfg \in SetupConfigs, csv \in MissingCsvChoices :
        Constructs(cfg, Some(1), csv)

NextSetup == getitem_files

SpecSetup == InitSetup /\ [][NextSetup]_vars

\* an included variable has no path or no channel count
InconsistentConfig ==
    LET slots == InputSlots(config.input_data, 1)
    IN \E i \in 1..Len(slots) :
          \/ ~HasKey(num_input_channels_dict, SlotKey(slots[i]))
          \/ \E h \in Hemispheres : (<<h>> \o SlotKey(slots[i])) \notin variable_paths

\* C23: a loader whose configuration includes a variable that the path
\* resolver or the channel bookkeeping does not know was never constructed, so
\* no batch request reaches it: the inconsistency is not first met in a batch.
C23_InconsistencyFailsConstruction ==
    InconsistentConfig => ret.kind # "batch"

\* ------------------------------------------------------ the mask shapes alone
NextShape == determine_active_grid_cell_mask_shaped

SpecShape == InitNorm /\ [][NextShape]_vars

\* C24: the all-false grid has the shape raw_data_shape, so that removing it
\* from a land/ocean grid of that shape succeeds and leaves the grid unchanged.
C24_NoPolarHoleShape ==
    op.name = "determine_active_grid_cell_mask" =>
        /\ op.polarhole_mask.shape = op.raw_data_shape
        /\ ret.status = "ok"
        /\ ret.mask = op.land_ocean

\* ------------------------------------------------ the loader with the reset
InitReset ==
    \E input_data \in ResetInputDataChoices, csv \in MissingCsvChoices :
        Constructs([FixedConfig EXCEPT !.input_data = input_data], Some(1), csv)

NextReset ==
    \/ reset_data_loader_with_new_input_data
    \/ on_epoch_end
    \/ getitem
    \/ convert_to_validation_data_loader
    \/ convert_to_test_data_loader

SpecReset == InitReset /\ [][NextReset]_vars

\* C25: in every reachable state, whatever the operations that led to it, no
\* sample of the index has a missing date among start-1 .. start-max_lag under
\* the configuration the loader holds.
C25_IndexCleanUnderCurrentConfig ==
    \A i \in 1..Len(all_forecast_IDs) : CleanWindow(all_forecast_IDs[i])

\* C26: every weight of a batch is a finite, non-negative number, also when
\* the month reweighting is on and the composed mask has no active cell.
C26_WeightsFiniteNonNegative ==
    BatchOk =>
        \A s \in 1..Len(ret.IDs) : \A l \in 0..(config.n_forecast_days - 1) :
            \A c \in Cells :
                /\ ret.y1[s][l][c] # NaN
                /\ ret.y1[s][l][c][2] > 0
                /\ ret.y1[s][l][c][1] >= 0

\* the paths, the channel counts and their total are those of the input_data
\* in the configuration
BookkeepingCurrent ==
    LET v == config.input_data
    IN /\ \A h \in Hemispheres : \A k \in 1..Len(v) :
             IF v[k].metadata
             THEN /\ (<<h, v[k].varname>> \in variable_paths) <=> v[k].include
                  /\ HasKey(num_input_channels_dict, <<v[k].varname>>) <=> v[k].include
             ELSE \A j \in 1..Len(v[k].formats) :
                     LET f == v[k].formats[j]
                         key == <<v[k].varname, f.data_format>>
                     IN /\ ((<<h>> \o key) \in variable_paths) <=> f.include
                        /\ HasKey(num_input_channels_dict, key) <=> f.include
                        /\ f.include =>
                              Lookup(num_input_channels_dict, key)
                                  = IF f.data_format = "linear_trend"
                                    THEN config.n_forecast_days ELSE f.max_lag
       /\ \A p \in variable_paths :
             \E k \in 1..Len(v) : p[2] = v[k].varname
       /\ \A i \in 1..Len(num_input_channels_dict) :
             \A j \in 1..Len(num_input_channels_dict) :
                 num_input_channels_dict[i][1] = num_input_channels_dict[j][1] => i = j
       /\ tot_num_channels = ClaimTotal

\* C27: after reset_data_loader_with_new_input_data, and in every state that
\* follows, the paths, the per-representation channel counts and the total
\* are those of the current input_data, nothing of a representation that is
\* no longer included remains, and a batch has tot_num_channels channels.
C27_ResetBookkeeping ==
    /\ BookkeepingCurrent
    /\ BatchOk => \A s \in 1..Len(ret.IDs) : Len(ret.X[s]) = tot_num_channels

\* C27 witness: a batch served after a reset; the reset deepened the abs lag
\* (a sample of the index has a missing date in its window, which no index
\* build leaves), and neither anom nor the day encoding is included
C27_Witness ==
    /\ BatchOk
    /\ calls >= 1
    /\ \E i \in 1..Len(all_forecast_IDs) : ~CleanWindow(all_forecast_IDs[i])
    /\ ~SicRepresentation(config, "anom").include
    /\ ~config.input_data[3].include
    /\ Len(ret.X[1]) = tot_num_channels

\* ------------------------------------------------------ the callbacks alone
InitCallbacks ==
    /\ \E csv \in MissingCsvChoices :
          csv["nh"] = << <<2, 2>> >> /\ ConstructsLoader(FixedConfig, Some(1), csv)
    /\ training \in TrainingStarts
    /\ downloader = NoDownloader

NextCallbacks ==
    \/ train_step
    \/ evaluator_on_train_batch_end
    \/ checkpoint_on_train_batch_end

SpecCallbacks == InitCallbacks /\ [][NextCallbacks]_vars

\* the checkpoint's trigger, strict improvement and initial value, as stated
ClaimTrigger(batch) ==
    (batch + 1) % training.save_frequency = 0
        \/ (batch = 0 /\ training.checkpoint_sample_at_zero)
ClaimBetter(new, old) ==
    (training.mode = "max" /\ new > old) \/ (training.mode = "min" /\ new < old)
ClaimInitialBest ==
    IF training.prev_best # None THEN Val(training.prev_best)
    ELSE IF training.mode = "max" THEN NegInf ELSE Inf

\* C28: `best` changes only in a checkpoint call at a trigger batch and only to
\* the monitored value of that batch, which is strictly better than the old
\* best; the model is saved exactly when `best` changes; and `best` always is
\* the value of the last save, or the initial value when nothing was saved.
C28_CheckpointBest ==
    /\ [](training.best = IF training.saves = <<>> THEN ClaimInitialBest
                          ELSE training.saves[Len(training.saves)].value)
    /\ [][ /\ (training'.best # training.best) <=> (training'.saves # training.saves)
           /\ training'.best # training.best =>
                 /\ op' = [name |-> "BatchwiseModelCheckpoint.on_train_batch_end"]
                 /\ ClaimTrigger(training.batch)
                 /\ training'.best = training.logs[training.monitor]
                 /\ ClaimBetter(training'.best, training.best)
                 /\ training'.saves
                        = Append(training.saves, [batch |-> training.batch,
                                                  value |-> training'.best]) ]_vars

\* C28 witness: the model was saved twice, the second time at a later batch
\* with a strictly better value
C28_Witness ==
    /\ training.stage = "fit"
    /\ Len(training.saves) = 2
    /\ training.saves[1].batch < training.saves[2].batch
    /\ training.best = training.saves[2].value
    /\ training.prev_best = None

\* the evaluator was called for the current batch
EvaluatorCalled ==
    \E i \in 1..training.pos : training.callbacks[i] = "evaluator"

\* the evaluator's batches, as stated
ClaimEvaluates(batch) ==
    (batch + 1) % training.validation_frequency = 0
        \/ (batch = 0 /\ training.evaluator_sample_at_zero)

\* C29: with the evaluator before the checkpoint in the callback list, the
\* same frequency and the same sample_at_zero, whenever the checkpoint is about
\* to read a monitored val_ metric the evaluator has run for that batch and
\* the metric is in the logs, so the read never fails; and the evaluator has
\* run exactly for the batches with (batch + 1) % validation_frequency = 0,
\* and for batch 0 when sample_at_zero.
C29_EvaluatorBeforeCheckpoint ==
    /\ ( /\ training.callbacks = <<"evaluator", "checkpoint">>
         /\ training.validation_frequency = training.save_frequency
         /\ training.evaluator_sample_at_zero = training.checkpoint_sample_at_zero
         /\ training.monitor = "val_loss" )
       => /\ training.error = "none"
          /\ ( /\ training.pos < Len(training.callbacks)
               /\ training.callbacks[training.pos + 1] = "checkpoint"
               /\ ClaimTrigger(training.batch) )
             => /\ training.batch \in training.evaluated
                /\ "val_loss" \in DOMAIN training.logs
    /\ \A b \in 0..(MaxTrainBatch - 1) :
          (b < training.batch \/ (b = training.batch /\ EvaluatorCalled))
              => (b \in training.evaluated <=> ClaimEvaluates(b))
    /\ \A b \in training.evaluated : b <= training.batch

\* C29 witness: evaluator first, both every second batch, and the checkpoint
\* saved on a val_ metric at a batch after the first
C29_Witness ==
    /\ training.callbacks = <<"evaluator", "checkpoint">>
    /\ training.validation_frequency = 2 /\ training.save_frequency = 2
    /\ training.evaluator_sample_at_zero = training.checkpoint_sample_at_zero
    /\ training.monitor = "val_loss"
    /\ op = [name |-> "BatchwiseModelCheckpoint.on_train_batch_end"]
    /\ training.batch = 1
    /\ Len(training.saves) >= 1
    /\ training.saves[Len(training.saves)].batch = 1
    /\ training.evaluated = {1}

\* ----------------------------------------------------- the downloader alone
InitDownload ==
    /\ \E csv \in MissingCsvChoices :
          csv["nh"] = << <<2, 2>> >> /\ ConstructsLoader(FixedConfig, Some(1), csv)
    /\ training = NoTraining
    /\ downloader \in DownloaderStarts

NextDownload == single_download \/ processed_file_appears

SpecDownload == InitDownload /\ [][NextDownload]_vars

\* the queries and the results of one experiment in the last call
QueriesOf(experiment_id) ==
    SelectSeq(downloader.queried, LAMBDA q : q[1] = experiment_id)
ResultsOf(experiment_id) ==
    SelectSeq(downloader.results, LAMBDA r : r[1] = experiment_id)

\* how often the path is in the list of downloaded files
TimesDownloaded(var) ==
    Cardinality({i \in 1..Len(downloader.files_downloaded) :
                    downloader.files_downloaded[i] = var})

\* C30: in a call that queries, each experiment's nodes are queried in the
\* configured order up to and including the first node with a result, the
\* experiment's results are that node's, and no node after it is queried; in
\* a call that finds the output file and no processed file nothing is queried
\* or downloaded and the output path is in the downloaded-files list at most
\* once.
C30_NodePriorityAndIdempotence ==
    op.name = "_single_download" =>
        /\ (~op.output_existed \/ op.proc_existed) =>
              \A e \in 1..Len(experiments) :
                  LET q == QueriesOf(experiments[e])
                      r == ResultsOf(experiments[e])
                  IN /\ Len(q) >= 1 /\ Len(q) <= Len(ESGF_NODES)
                     /\ \A i \in 1..Len(q) : q[i][2] = ESGF_NODES[i]
                     /\ \A i \in 1..(Len(q) - 1) : q[i] \notin downloader.catalogue
                     /\ Len(r) <= 1
                     /\ r # <<>> => r[1] = q[Len(q)] /\ r[1] \in downloader.catalogue
                     /\ r = <<>> => Len(q) = Len(ESGF_NODES)
                                       /\ q[Len(q)] \notin downloader.catalogue
        /\ (op.output_existed /\ ~op.proc_existed) =>
              /\ downloader.queried = <<>>
              /\ downloader.results = <<>>
              /\ downloader.status = "exists"
              /\ TimesDownloaded(op.var_prefix) <= 1

\* C30 witness: a call that stopped at the second node of the first
\* experiment although the third has results too, after an earlier call had
\* found the other variable's file in place
C30_Witness ==
    /\ op.name = "_single_download" /\ op.var_prefix = "tas" /\ ~op.output_existed
    /\ downloader.status = "downloaded"
    /\ Len(QueriesOf(experiments[1])) = 2
    /\ <<experiments[1], ESGF_NODES[3]>> \in downloader.catalogue
    /\ downloader.files_downloaded = <<"siconca", "tas">>
    /\ "siconca" \notin downloader.proc_exists
    /\ downloader.calls = 3

Next ==
    \/ on_epoch_end
    \/ len
    \/ getitem
    \/ convert_to_validation_data_loader
    \/ convert_to_test_data_loader

Spec == Init /\ [][Next]_vars
====
